---- MODULE Spec2Model ----
(***************************************************************************)
(* A model of the subtitle engine of VideoSubtitleCleanser: the AWS        *)
(* transcript pipeline parse_aws_transcript_to_ass (token normalizer,      *)
(* segmenter, cue merger, minimum duration, position resolver, ASS         *)
(* writer), the CLI code that calls it, and the backend converter          *)
(* _convert_aws_transcript_to_webvtt with the task code that calls it.     *)
(*                                                                         *)
(* Times are integers in milliseconds and are compared exactly; the source  *)
(* holds them as float seconds, so that on values no float holds exactly   *)
(* a comparison at the very threshold may round the other way.             *)
(***************************************************************************)
EXTENDS Integers, Sequences, FiniteSets, TLC

(***************************************************************************)
(* Program constants (milliseconds and words).                             *)
(***************************************************************************)
MAX_SEGMENT_LENGTH == 12

MAX_SEGMENT_DURATION == 5000

PAUSE_THRESHOLD == 700

MERGE_GAP == 300

MIN_DURATION == 1000

\* frames sampled per cue by detect_text_in_video
sample_rate == 5

\* pause that starts a new subtitle in _convert_aws_transcript_to_webvtt
VTT_PAUSE == 1500

\* the number of cues from which the sample video is given fixed changes
SampleCues == 6

\* status checks wait_for_transcription_job makes: max(1, int(300 / 10))
max_attempts == 30

\* "Maximum number of polling attempts" of transcribe_video_to_subtitles
max_polls == 60

(***************************************************************************)
(* Bounds of the model.                                                    *)
(***************************************************************************)
\* longest transcript (in items) drawn from the full item alphabet
MaxItems == 3

\* number of short same-speaker words put in front of a transcript to
\* fill a cue up to MAX_SEGMENT_LENGTH
PrefixLen == 12

\* longest transcript that follows such a prefix
MaxTail == 1

\* longest transcript handed to the whole ASS pipeline
MaxAssItems == 2

\* largest number of sampled frames in which the detector reports text
MaxObs == 1

\* longest transcript handed to the WebVTT converter
MaxVttItems == 2

\* number of requests made for one task id
MaxRuns == 3

\* number of subtitles in an uploaded file
MaxSubs == 1

\* number of words Rekognition finds in the frames it samples
MaxRegions == 1

\* number of segments of a Whisper result
MaxSegments == 2

\* number of subtitles given to the dialogue detection
MaxDialogueSubs == 2

(***************************************************************************)
(* Transcript items.  A JSON field that may be absent or unparsable is a   *)
(* record: kind "num" (present, float() succeeds), "absent" (no such key)  *)
(* or "text" (present, float() raises ValueError).                         *)
(***************************************************************************)
Num(n) == [kind |-> "num", val |-> n]

Absent == [kind |-> "absent", val |-> 0]

Garbage == [kind |-> "text", val |-> 0]

Speakers == {"spk_0", "spk_1"}

\* contents of the words, one per item position: every word is distinct
WordList == <<"w01", "w02", "w03", "w04", "w05", "w06", "w07", "w08", "w09",
              "w10", "w11", "w12", "w13", "w14", "w15", "w16", "w17", "w18">>

\* <<start-to-start distance to the previous item, duration>> of a word
\* (after a 200 ms word a step of 900 leaves a gap of exactly PAUSE_THRESHOLD;
\* after a 3000 ms word a step of 3000 leaves no gap, a step of 3300 a gap of
\* exactly MERGE_GAP, and the step <<3500, 1500>> ends exactly
\* MAX_SEGMENT_DURATION after its start)
TimeSteps == {<<200, 200>>, <<900, 200>>, <<3000, 200>>, <<3200, 3000>>,
              <<3300, 3000>>, <<3500, 1500>>}

ShortStep == <<200, 200>>

\* the shapes of item a transcript is drawn from: well-formed words of each
\* timing and speaker label, a word no speaker segment names, the malformed
\* items, and punctuation
WordKinds == [shape : {"word"}, step : TimeSteps, spk : Speakers]

OtherKinds ==
    [shape : {"unlabelled", "no_start", "no_end", "no_alternatives",
              "empty_content", "bad_time", "punctuation"},
     step : {ShortStep}, spk : {"spk_0"}]

ItemKinds == WordKinds \cup OtherKinds

\* the shapes the segmenter and the merger are run on: of the malformed items,
\* which the normalizer drops alike, one without a timestamp, one without
\* alternatives and one without content
CoreKinds ==
    {kd \in ItemKinds : kd.shape \notin {"no_end", "bad_time"}}

\* a content that is a JSON number, which json.load hands over as an int:
\* the contents of the model are strings, and this one stands for the number
NumberContent == "5"

IsStr(content) == content # NumberContent

PrefixKind == [shape |-> "word", step |-> ShortStep, spk |-> "spk_0"]

\* start time of the k-th item of a script: the sum of the steps so far
RECURSIVE StartOf(_, _)
StartOf(script, k) ==
    IF k = 0 THEN 0 ELSE StartOf(script, k - 1) + script[k].step[1]

\* the item of results.items that position k of a script stands for
ItemOf(script, k) ==
    LET kd == script[k]
        s  == StartOf(script, k)
        e  == s + kd.step[2]
        alt == <<[content |-> WordList[k]]>>
    IN  CASE kd.shape = "punctuation" ->
               [type |-> "punctuation", start_time |-> Absent,
                end_time |-> Absent, alternatives |-> <<[content |-> ","]>>]
          [] kd.shape = "no_start" ->
               [type |-> "pronunciation", start_time |-> Absent,
                end_time |-> Num(e), alternatives |-> alt]
          [] kd.shape = "no_end" ->
               [type |-> "pronunciation", start_time |-> Num(s),
                end_time |-> Absent, alternatives |-> alt]
          [] kd.shape = "bad_time" ->
               [type |-> "pronunciation", start_time |-> Garbage,
                end_time |-> Num(e), alternatives |-> alt]
          [] kd.shape = "no_alternatives" ->
               [type |-> "pronunciation", start_time |-> Num(s),
                end_time |-> Num(e), alternatives |-> <<>>]
          [] kd.shape = "empty_content" ->
               [type |-> "pronunciation", start_time |-> Num(s),
                end_time |-> Num(e), alternatives |-> <<[content |-> ""]>>]
          [] kd.shape = "said" ->
               [type |-> "pronunciation", start_time |-> Num(s),
                end_time |-> Num(e),
                alternatives |-> <<[content |-> kd.content]>>]
          [] kd.shape = "number_content" ->
               [type |-> "pronunciation", start_time |-> Num(s),
                end_time |-> Num(e),
                alternatives |-> <<[content |-> NumberContent]>>]
          [] OTHER ->
               [type |-> "pronunciation", start_time |-> Num(s),
                end_time |-> Num(e), alternatives |-> alt]

ItemsOf(script) == [k \in 1..Len(script) |-> ItemOf(script, k)]

\* results.speaker_labels.segments: one segment per labelled word, naming
\* the word by its start_time as AWS Transcribe does
RECURSIVE SpeakerSegmentsOf(_, _)
SpeakerSegmentsOf(script, k) ==
    IF k = 0 THEN <<>>
    ELSE LET rest == SpeakerSegmentsOf(script, k - 1)
         IN  IF script[k].shape \in {"word", "no_end", "no_alternatives",
                                     "empty_content", "number_content",
                                     "said"}
             THEN Append(rest,
                         [speaker_label |-> script[k].spk,
                          items |-> <<[start_time |-> Num(StartOf(script, k))]>>])
             ELSE rest

\* the transcript document a script stands for
TranscriptOf(script) ==
    [top |-> "dict", items |-> ItemsOf(script),
     speaker_segments |-> SpeakerSegmentsOf(script, Len(script))]

\* documents with a whole-transcript anomaly: None, {}, a non-empty list, a
\* non-empty dict without 'results', a dict whose 'results' is a list
AnomalousTops == {"None", "empty_dict", "list", "no_results", "results_list"}

AnomalousTranscripts ==
    [top : AnomalousTops, items : {<<>>}, speaker_segments : {<<>>}]

\* a word of a given content
Said(content, step, spk) ==
    [shape |-> "said", step |-> step, spk |-> spk, content |-> content]

\* one word Hi from 1.0 s to 2.0 s
HiScript == <<Said("Hi", <<1000, 1000>>, "spk_0")>>

\* Hello (0.0-0.5) and there (0.5-0.9) of spk_0, a comma, Bob (2.0-2.4) of
\* spk_1
HelloScript ==
    <<Said("Hello", <<0, 500>>, "spk_0"), Said("there", <<500, 400>>, "spk_0"),
      [shape |-> "punctuation", step |-> <<0, 0>>, spk |-> "spk_0"],
      Said("Bob", <<1500, 400>>, "spk_1")>>

ScriptsUpTo(n, kinds) == UNION {[1..m -> kinds] : m \in 0..n}

Prefix == [k \in 1..PrefixLen |-> PrefixKind]

PrefixedScripts == {Prefix \o t : t \in ScriptsUpTo(MaxTail, CoreKinds)}

\* the transcripts handed to the whole ASS pipeline: well-formed words that
\* are short, or long and followed at once, or long and followed after 200 ms,
\* and a word whose content is a number
AssSteps == {<<200, 200>>, <<3000, 3000>>, <<3200, 3000>>}

AssKinds ==
    [shape : {"word"}, step : AssSteps, spk : Speakers]
        \cup [shape : {"number_content"}, step : {<<3200, 3000>>},
              spk : {"spk_1"}]

AssTranscripts ==
    {TranscriptOf(s) : s \in ScriptsUpTo(MaxAssItems, AssKinds) \cup {HiScript}}
        \cup AnomalousTranscripts

\* bounding boxes <<y, h>> of detected words: near the top, in the middle and
\* near the bottom of the frame
TopBox == <<50, 40>>

MiddleBox == <<340, 40>>

BottomBox == <<600, 40>>

\* what the detector may report for one sampled frame
FrameTexts == {<<TopBox>>, <<BottomBox>>, <<TopBox, BottomBox>>, <<MiddleBox>>}

VttTranscripts ==
    {TranscriptOf(s) : s \in ScriptsUpTo(MaxVttItems, ItemKinds)}
        \cup AnomalousTranscripts

CoreTranscripts ==
    {TranscriptOf(s) :
        s \in ScriptsUpTo(MaxItems, CoreKinds) \cup PrefixedScripts
                 \cup {HelloScript}}
        \cup AnomalousTranscripts

(***************************************************************************)
(* State.                                                                  *)
(***************************************************************************)
VARIABLES
    transcript_data,   \* the transcript document handed to the converter
    pc,                \* where the run is
    speaker_map,       \* item identifier -> speaker label
    words,             \* the normalized word tokens
    i,                 \* index of the next word the segmenter looks at
    current_segment,   \* the cue the segmenter is filling
    prev_speaker,      \* speaker of the word before words[i]
    prev_end_time,     \* end time of the word before words[i]
    segments,          \* the cues the segmenter has closed
    merged_segments,   \* the cues after merging
    timed_segments,    \* the cues after the minimum duration is ensured
    success,           \* what parse_aws_transcript_to_ass returned
    video_path,        \* "None", "missing" (no such file) or "exists"
    text_regions_by_time, \* sampled time (1/60 ms) -> boxes of detected words
    position_map,      \* what detect_text_in_video returned
    output_ass,        \* the output file
    whisper_available, \* WHISPER_AVAILABLE
    main_result,       \* how main() ended
    tool,              \* the transcription tool the task asked for
    subtitles,         \* the subtitles _convert_aws_transcript_to_webvtt built
    output_vtt,        \* the WebVTT file
    convert_result,    \* how _convert_aws_transcript_to_webvtt ended
    task_status,       \* the status of the backend task
    runs,              \* the background runs scheduled for one task id
    active_tasks,      \* active_tasks[task_id]: the run whose event it holds
    subs,              \* the subtitles load_subtitles returned
    rekognition,       \* Rekognition, OpenCV and the video are all usable
    text_regions,      \* the words Rekognition finds in the sampled frames
    output_format,     \* options["output_format"] of the run
    positioned,        \* the subtitles optimize_subtitle_position returned
    files,             \* the files of the task in data/processed
    process_status,    \* the status of the task process_subtitle works on
    result,            \* the segments of a Whisper result
    sample_video,      \* the path of the WebVTT file holds 'SampleVideo.mp4'
    speaker_changes,   \* speaker_changes of generate_ass_from_video_whisper
    cue_changes,       \* speaker_changes of apply_speaker_diarization
    whisper_vtt,       \* the file _convert_whisper_result_to_webvtt writes
    dialogue_subs,     \* the texts of the subtitles given to _basic_dialogue_detection
    detected_subs,     \* the texts of the subtitles it returned
    job_status,        \* TranscriptionJobStatus of the AWS job
    loop,              \* the loop that polls the job
    attempts,          \* the status checks the loop has made
    poll_result,       \* how the loop ended
    func,              \* the service function the background task runs
    call,              \* the arguments and the tools at hand for the run
    run_pc,            \* where the run of the service function is
    polls,             \* polls of transcribe_video_to_subtitles
    cancellation_event, \* cancellation_event.is_set()
    in_active_tasks,   \* task_id in active_tasks
    status_log,        \* the calls of update_task_status, in order
    output_saved,      \* the output file of the task is written
    set_before_save    \* the event was set while no output was written

coreVars == <<transcript_data, pc, speaker_map, words, i, current_segment,
              prev_speaker, prev_end_time, segments, merged_segments,
              timed_segments, success>>

assVars == <<video_path, text_regions_by_time, position_map, output_ass,
             whisper_available, main_result>>

vttVars == <<tool, subtitles, output_vtt, convert_result, task_status>>

taskVars == <<runs, active_tasks>>

\* the state of the backend service outside the transcript converter
processVars == <<subs, rekognition, text_regions, output_format, positioned,
                 files, process_status>>

whisperVars == <<result, sample_video, speaker_changes, cue_changes,
                 whisper_vtt>>

dialogueVars == <<dialogue_subs, detected_subs>>

\* the state of the rest of the service
pollVars == <<job_status, loop, attempts, poll_result>>

runVars == <<func, call, run_pc, polls, cancellation_event, in_active_tasks,
             status_log, output_saved, set_before_save>>

serviceVars == <<dialogueVars, pollVars, runVars>>

backendVars == <<taskVars, processVars, whisperVars, serviceVars>>

vars == <<coreVars, assVars, vttVars, backendVars>>

NoFile == [exists |-> FALSE, styles |-> {}, events |-> <<>>]

NoSegment ==
    [start_time |-> 0, end_time |-> 0, speaker |-> "", text |-> <<>>,
     speaker_changed |-> FALSE]

EmptyMap == [k \in {} |-> ""]

(***************************************************************************)
(* Token normalizer.                                                       *)
(***************************************************************************)
\* the identifier of an item of a speaker segment: the first of the fields
\* item_id, id, start_time the item has (only start_time occurs here)
SegmentItemId(item) == item.start_time

\* speaker_map after the items of one speaker segment are entered
RECURSIVE MapSegmentItems(_, _, _)
MapSegmentItems(map, label, items) ==
    IF items = <<>> THEN map
    ELSE LET id == SegmentItemId(Head(items))
             m  == IF id.kind = "absent" THEN map
                   ELSE (id.val :> label) @@ map
         IN  MapSegmentItems(m, label, Tail(items))

RECURSIVE BuildSpeakerMap(_, _)
BuildSpeakerMap(map, speaker_segs) ==
    IF speaker_segs = <<>> THEN map
    ELSE BuildSpeakerMap(
             MapSegmentItems(map, Head(speaker_segs).speaker_label,
                             Head(speaker_segs).items),
             Tail(speaker_segs))

\* (a variant that looks the word up by its field id alone, which the items
\* of a transcript do not carry)
SpeakerOfItemId(map, item) == "spk_0"

\* the speaker of a word: the label speaker_map holds for its start_time,
\* else the default
SpeakerOf(map, item) ==
    IF item.start_time.val \in DOMAIN map THEN map[item.start_time.val]
    ELSE "spk_0"

\* one iteration of the loop over results.items: the word list after item
NormalizeItem(ws, item, map) ==
    IF item.type = "pronunciation"
    THEN IF item.start_time.kind = "absent" \/ item.end_time.kind = "absent"
         THEN ws
         ELSE IF item.start_time.kind = "text" \/ item.end_time.kind = "text"
         THEN ws   \* float() raises, the except clause continues
         ELSE IF item.alternatives = <<>>
         THEN ws
         ELSE IF item.alternatives[1].content = ""
         THEN ws
         ELSE Append(ws, [content |-> item.alternatives[1].content,
                          start_time |-> item.start_time.val,
                          end_time |-> item.end_time.val,
                          speaker |-> SpeakerOf(map, item)])
    ELSE IF item.type = "punctuation"
    THEN IF ws # <<>> /\ item.alternatives # <<>>
            /\ item.alternatives[1].content # ""
            /\ IsStr(ws[Len(ws)].content)   \* int += str raises: continue
         THEN [ws EXCEPT ![Len(ws)].content = @ \o item.alternatives[1].content]
         ELSE ws
    ELSE ws

RECURSIVE NormalizeItems(_, _, _)
NormalizeItems(ws, items, map) ==
    IF items = <<>> THEN ws
    ELSE NormalizeItems(NormalizeItem(ws, Head(items), map), Tail(items), map)

(***************************************************************************)
(* Segmenter.                                                              *)
(***************************************************************************)
FirstSegment(word) ==
    [start_time |-> word.start_time, end_time |-> word.end_time,
     speaker |-> word.speaker, text |-> <<word.content>>,
     speaker_changed |-> FALSE]

\* (a variant that marks every new cue)
SpeakerChangedAlways(word, prevSpeaker) == TRUE

\* the four tests of the segmenter on the next word
SpeakerChanged(word, prevSpeaker) == word.speaker # prevSpeaker

TimeGap(word, prevEnd) == word.start_time - prevEnd > PAUSE_THRESHOLD

\* (a variant with the comparison off by one)
SegmentTooLongOffByOne(seg) == Len(seg.text) > MAX_SEGMENT_LENGTH

SegmentTooLong(seg) == Len(seg.text) >= MAX_SEGMENT_LENGTH

SegmentTooLongDuration(word, seg) ==
    word.end_time - seg.start_time > MAX_SEGMENT_DURATION

StartsNewSegment(word, seg, prevSpeaker, prevEnd) ==
    \/ SpeakerChanged(word, prevSpeaker)
    \/ TimeGap(word, prevEnd)
    \/ SegmentTooLong(seg)
    \/ SegmentTooLongDuration(word, seg)

\* (a variant that copies the first segment's initialiser unchanged)
NewSegmentFromFirst(word, prevSpeaker) ==
    [start_time |-> words[1].start_time, end_time |-> word.end_time,
     speaker |-> word.speaker, text |-> <<word.content>>,
     speaker_changed |-> SpeakerChanged(word, prevSpeaker)]

NewSegment(word, prevSpeaker) ==
    [start_time |-> word.start_time, end_time |-> word.end_time,
     speaker |-> word.speaker, text |-> <<word.content>>,
     speaker_changed |-> SpeakerChanged(word, prevSpeaker)]

\* (a variant that leaves the end of the cue where it was)
ContinueSegmentKeepEnd(seg, word) ==
    [seg EXCEPT !.text = Append(@, word.content)]

ContinueSegment(seg, word) ==
    [seg EXCEPT !.end_time = word.end_time,
                !.text = Append(@, word.content)]

(***************************************************************************)
(* Cue merger and minimum duration.                                        *)
(***************************************************************************)
\* (a variant that merges on the gap and the length alone)
CanMergeIgnoringSpeaker(previous, current) ==
    /\ current.start_time - previous.end_time < MERGE_GAP
    /\ Len(previous.text) + Len(current.text) <= MAX_SEGMENT_LENGTH

CanMerge(previous, current) ==
    /\ ~current.speaker_changed
    /\ current.speaker = previous.speaker
    /\ current.start_time - previous.end_time < MERGE_GAP
    /\ Len(previous.text) + Len(current.text) <= MAX_SEGMENT_LENGTH

\* (a variant that extends the time of the cue and drops the words)
MergeIntoDropText(previous, current) ==
    [previous EXCEPT !.end_time = current.end_time]

MergeInto(previous, current) ==
    [previous EXCEPT !.end_time = current.end_time,
                     !.text = @ \o current.text]

\* the loop over segments[1:], merged being merged_segments so far
RECURSIVE MergeLoop(_, _)
MergeLoop(merged, rest) ==
    IF rest = <<>> THEN merged
    ELSE LET current  == Head(rest)
             previous == merged[Len(merged)]
         IN  IF CanMerge(previous, current)
             THEN MergeLoop([merged EXCEPT ![Len(merged)] =
                                 MergeInto(previous, current)], Tail(rest))
             ELSE MergeLoop(Append(merged, current), Tail(rest))

MergeSegments(segs) ==
    IF Len(segs) > 1 THEN MergeLoop(<<Head(segs)>>, Tail(segs)) ELSE segs

\* (a variant that leaves every cue as it is)
KeepDuration(seg) == seg

EnsureMinDuration(seg) ==
    IF seg.end_time - seg.start_time < MIN_DURATION
    THEN [seg EXCEPT !.end_time = seg.start_time + MIN_DURATION]
    ELSE seg

(***************************************************************************)
(* parse_aws_transcript_to_ass, up to the cues it writes.                  *)
(***************************************************************************)
\* the checks on the document: it is a non-empty dict with a key 'results'
ValidTranscript(td) == td.top \in {"dict", "results_list"}

\* how the function's own except clause ends the call.  The function body
\* holds an "import traceback" (in the except clause of the speaker mapping),
\* so traceback is a local name of the function; that import runs only if
\* the speaker mapping raised, which no transcript here makes it do, and the
\* clause's traceback.print_exc() raises UnboundLocalError out of the call.
ExceptClause == "raised"

Validate ==
    /\ pc = "start"
    /\ IF ~ValidTranscript(transcript_data)
       THEN pc' = "returned" /\ success' = FALSE
       ELSE IF transcript_data.top = "results_list"
       THEN pc' = ExceptClause /\ UNCHANGED success  \* results.get raises
       ELSE pc' = "normalize" /\ UNCHANGED success
    /\ UNCHANGED <<transcript_data, speaker_map, words, i, current_segment,
                   prev_speaker, prev_end_time, segments, merged_segments,
                   timed_segments>>
    /\ UNCHANGED assVars
    /\ UNCHANGED <<vttVars, backendVars>>

Normalize ==
    /\ pc = "normalize"
    /\ LET map == BuildSpeakerMap(EmptyMap, transcript_data.speaker_segments)
       IN  /\ speaker_map' = map
           /\ words' = NormalizeItems(<<>>, transcript_data.items, map)
    /\ pc' = "segment_init"
    /\ UNCHANGED <<transcript_data, i, current_segment, prev_speaker,
                   prev_end_time, segments, merged_segments, timed_segments,
                   success>>
    /\ UNCHANGED assVars
    /\ UNCHANGED <<vttVars, backendVars>>

SegmentInit ==
    /\ pc = "segment_init"
    /\ IF words = <<>>
       THEN /\ pc' = "returned"
            /\ success' = FALSE
            /\ UNCHANGED <<i, current_segment, prev_speaker, prev_end_time>>
       ELSE /\ current_segment' = FirstSegment(words[1])
            /\ prev_speaker' = words[1].speaker
            /\ prev_end_time' = words[1].end_time
            /\ i' = 2
            /\ pc' = "segment"
            /\ UNCHANGED success
    /\ UNCHANGED <<transcript_data, speaker_map, words, segments,
                   merged_segments, timed_segments>>
    /\ UNCHANGED assVars
    /\ UNCHANGED <<vttVars, backendVars>>

SegmentStep ==
    /\ pc = "segment"
    /\ i <= Len(words)
    /\ LET word == words[i]
       IN  /\ IF StartsNewSegment(word, current_segment, prev_speaker,
                                  prev_end_time)
              THEN /\ segments' = Append(segments, current_segment)
                   /\ current_segment' = NewSegment(word, prev_speaker)
              ELSE /\ current_segment' = ContinueSegment(current_segment, word)
                   /\ UNCHANGED segments
           /\ prev_speaker' = word.speaker
           /\ prev_end_time' = word.end_time
    /\ i' = i + 1
    /\ UNCHANGED <<transcript_data, pc, speaker_map, words, merged_segments,
                   timed_segments, success>>
    /\ UNCHANGED assVars
    /\ UNCHANGED <<vttVars, backendVars>>

SegmentFinish ==
    /\ pc = "segment"
    /\ i > Len(words)
    /\ segments' = Append(segments, current_segment)
    /\ pc' = "merge"
    /\ UNCHANGED <<transcript_data, speaker_map, words, i, current_segment,
                   prev_speaker, prev_end_time, merged_segments,
                   timed_segments, success>>
    /\ UNCHANGED assVars
    /\ UNCHANGED <<vttVars, backendVars>>

Merge ==
    /\ pc = "merge"
    /\ merged_segments' = MergeSegments(segments)
    /\ pc' = "min_duration"
    /\ UNCHANGED <<transcript_data, speaker_map, words, i, current_segment,
                   prev_speaker, prev_end_time, segments, timed_segments,
                   success>>
    /\ UNCHANGED assVars
    /\ UNCHANGED <<vttVars, backendVars>>

MinDuration ==
    /\ pc = "min_duration"
    /\ timed_segments' =
           [k \in 1..Len(merged_segments) |-> EnsureMinDuration(merged_segments[k])]
    /\ pc' = "position"
    /\ UNCHANGED <<transcript_data, speaker_map, words, i, current_segment,
                   prev_speaker, prev_end_time, segments, merged_segments,
                   success>>
    /\ UNCHANGED assVars
    /\ UNCHANGED <<vttVars, backendVars>>

(***************************************************************************)
(* Position resolver: detect_text_in_video.  Sampled times are held in     *)
(* units of 1/60 ms, in which start + duration * i / n is an integer for   *)
(* every n up to sample_rate.                                              *)
(***************************************************************************)
Min(a, b) == IF a < b THEN a ELSE b

\* height of the video frame in pixels
FrameHeight == 720

\* number of frames sampled in a cue: min(sample_rate, int(duration * 2)),
\* computed exactly (the source truncates a float product, which for a
\* duration such as 1.4 - 0.4 lies just below the whole number)
NumSamples(seg) ==
    Min(sample_rate, ((seg.end_time - seg.start_time) * 2) \div 1000)

SampleTimes(seg) ==
    IF seg.end_time - seg.start_time > 0
    THEN {60 * seg.start_time
              + (60 * (seg.end_time - seg.start_time) * k) \div NumSamples(seg) :
          k \in 0..(NumSamples(seg) - 1)}
    ELSE {}

\* sample_timestamps, as a set
SampleTimestamps(segs) == UNION {SampleTimes(segs[k]) : k \in 1..Len(segs)}

\* what text_regions_by_time may hold after the frames are analysed: the
\* boxes of the words found, for the frames in which some were found
Observations(segs) ==
    UNION {[S -> FrameTexts] :
           S \in {T \in SUBSET SampleTimestamps(segs) : Cardinality(T) <= MaxObs}}

\* the boxes of the frames sampled within the cue's time range
OverlappingRegions(seg, regions) ==
    {<<ts, n>> \in UNION {{ts} \X (1..Len(regions[ts])) : ts \in DOMAIN regions} :
        60 * seg.start_time <= ts /\ ts <= 60 * seg.end_time}

CenterY(box) == box[1] + (box[2] \div 2)

InTopRegion(box) == CenterY(box) * 10 < FrameHeight * 3

InBottomRegion(box) == ~InTopRegion(box) /\ CenterY(box) * 10 > FrameHeight * 7

ResolvePosition(seg, regions) ==
    LET over == OverlappingRegions(seg, regions)
        top_text_count ==
            Cardinality({r \in over : InTopRegion(regions[r[1]][r[2]])})
        bottom_text_count ==
            Cardinality({r \in over : InBottomRegion(regions[r[1]][r[2]])})
    IN  IF top_text_count > 0 /\ bottom_text_count = 0 THEN "bottom_center"
        ELSE IF bottom_text_count > 0 /\ top_text_count = 0 THEN "top_center"
        ELSE IF top_text_count > 0 /\ bottom_text_count > 0 THEN "raised_bottom"
        ELSE "bottom_center"

\* position_map[(start_time, end_time)] = position on a dict kept as the
\* sequence of its entries in insertion order
PutPosition(map, seg, position) ==
    LET hit == {k \in 1..Len(map) :
                   /\ map[k].range_start = seg.start_time
                   /\ map[k].range_end = seg.end_time}
    IN  IF hit # {}
        THEN [k \in 1..Len(map) |->
                 IF k \in hit THEN [map[k] EXCEPT !.position = position]
                 ELSE map[k]]
        ELSE Append(map, [range_start |-> seg.start_time,
                          range_end |-> seg.end_time, position |-> position])

RECURSIVE PositionMap(_, _, _)
PositionMap(map, segs, regions) ==
    IF segs = <<>> THEN map
    ELSE PositionMap(PutPosition(map, Head(segs),
                                 ResolvePosition(Head(segs), regions)),
                     Tail(segs), regions)

(***************************************************************************)
(* ASS writer.                                                             *)
(***************************************************************************)
Digits == <<"0", "1", "2", "3", "4", "5", "6", "7", "8", "9">>

\* str(n) for a natural number n
RECURSIVE Str(_)
Str(n) == IF n < 10 THEN Digits[n + 1] ELSE Str(n \div 10) \o Digits[(n % 10) + 1]

\* f"{n:02d}"
Pad2(n) == IF n < 10 THEN "0" \o Str(n) ELSE Str(n)

\* (a variant that pads the hour to two digits)
format_time_ass_padded(ms) ==
    LET td_seconds   == (ms \div 1000) % 86400
        hours        == td_seconds \div 3600
        remainder    == td_seconds % 3600
        minutes      == remainder \div 60
        seconds      == remainder % 60
        centiseconds == (ms % 1000) \div 10
    IN  Pad2(hours) \o ":" \o Pad2(minutes) \o ":" \o Pad2(seconds)
            \o "." \o Pad2(centiseconds)

\* format_time_ass of a time in milliseconds
format_time_ass(ms) ==
    LET td_seconds   == (ms \div 1000) % 86400
        hours        == td_seconds \div 3600
        remainder    == td_seconds % 3600
        minutes      == remainder \div 60
        seconds      == remainder % 60
        centiseconds == (ms % 1000) \div 10
    IN  Str(hours) \o ":" \o Pad2(minutes) \o ":" \o Pad2(seconds)
            \o "." \o Pad2(centiseconds)

\* ' '.join(text)
RECURSIVE JoinWords(_)
JoinWords(text) ==
    IF text = <<>> THEN ""
    ELSE IF Len(text) = 1 THEN text[1]
    ELSE text[1] \o " " \o JoinWords(Tail(text))

\* the text of the k-th Dialogue line (k counts from 1, the source's i from 0)
DialogueText(seg, k) ==
    IF seg.speaker_changed /\ k > 1
    THEN "-- " \o JoinWords(seg.text)
    ELSE JoinWords(seg.text)

StyleOfPosition(position) ==
    CASE position = "top_center"    -> "Top"
      [] position = "raised_bottom" -> "RaisedBottom"
      [] OTHER                      -> "Default"

\* the style of a Dialogue line: that of the first entry of position_map
\* whose time range the cue touches, else Default
DialogueStyle(seg, map) ==
    LET hits == {k \in 1..Len(map) :
                    ~(seg.end_time < map[k].range_start
                          \/ seg.start_time > map[k].range_end)}
    IN  IF hits = {} THEN "Default"
        ELSE StyleOfPosition(map[CHOOSE k \in hits : \A m \in hits : k <= m].position)

Dialogue(seg, k, map) ==
    [start |-> format_time_ass(seg.start_time),
     end   |-> format_time_ass(seg.end_time),
     style |-> DialogueStyle(seg, map),
     text  |-> DialogueText(seg, k)]

\* the line f.write puts into the file for one cue
DialogueLine(d) ==
    "Dialogue: 0," \o d.start \o "," \o d.end \o "," \o d.style
        \o ",,0,0,0,," \o d.text

AssFile(segs, map) ==
    [exists |-> TRUE,
     styles |-> {"Default", "Top", "RaisedBottom"},
     events |-> [k \in 1..Len(segs) |-> Dialogue(segs[k], k, map)]]

(***************************************************************************)
(* parse_aws_transcript_to_ass, from the cues to the file.                 *)
(***************************************************************************)
\* no video path, or no such file: the else branch reads the name language,
\* which is bound nowhere, and the NameError reaches the except clause
NoVideo ==
    /\ pc = "position"
    /\ video_path \in {"None", "missing"}
    /\ pc' = ExceptClause
    /\ UNCHANGED <<transcript_data, speaker_map, words, i, current_segment,
                   prev_speaker, prev_end_time, segments, merged_segments,
                   timed_segments, success>>
    /\ UNCHANGED assVars
    /\ UNCHANGED <<vttVars, backendVars>>

\* detect_text_in_video returns {} (no Rekognition, no OpenCV, the video
\* does not open, an error in the detection) or raises
DetectUnavailable ==
    /\ pc = "position"
    /\ video_path = "exists"
    /\ position_map' = <<>>
    /\ pc' = "write"
    /\ UNCHANGED <<transcript_data, speaker_map, words, i, current_segment,
                   prev_speaker, prev_end_time, segments, merged_segments,
                   timed_segments, success>>
    /\ UNCHANGED <<video_path, text_regions_by_time, output_ass,
                   whisper_available, main_result>>
    /\ UNCHANGED <<vttVars, backendVars>>

DetectText ==
    /\ pc = "position"
    /\ video_path = "exists"
    /\ \E regions \in Observations(timed_segments) :
           /\ text_regions_by_time' = regions
           /\ position_map' = PositionMap(<<>>, timed_segments, regions)
    /\ pc' = "write"
    /\ UNCHANGED <<transcript_data, speaker_map, words, i, current_segment,
                   prev_speaker, prev_end_time, segments, merged_segments,
                   timed_segments, success>>
    /\ UNCHANGED <<video_path, output_ass, whisper_available, main_result>>
    /\ UNCHANGED <<vttVars, backendVars>>

\* the file is opened and its header and styles written before the loop over
\* the cues; ' '.join(segment['text']) raises on the first cue that holds a
\* content which is no string, and the file keeps what was written so far
Joinable(seg) == \A j \in 1..Len(seg.text) : IsStr(seg.text[j])

\* the number of cues written before one raises
RECURSIVE Written(_)
Written(segs) ==
    IF segs = <<>> \/ ~Joinable(Head(segs)) THEN 0
    ELSE 1 + Written(Tail(segs))

WriteAss ==
    /\ pc = "write"
    /\ LET n == Written(timed_segments)
       IN  IF n = Len(timed_segments)
           THEN /\ output_ass' = AssFile(timed_segments, position_map)
                /\ success' = TRUE
                /\ pc' = "returned"
           ELSE /\ output_ass' =
                       AssFile(SubSeq(timed_segments, 1, n), position_map)
                /\ pc' = ExceptClause
                /\ UNCHANGED success
    /\ UNCHANGED <<transcript_data, speaker_map, words, i, current_segment,
                   prev_speaker, prev_end_time, segments, merged_segments,
                   timed_segments>>
    /\ UNCHANGED <<video_path, text_regions_by_time, position_map,
                   whisper_available, main_result>>
    /\ UNCHANGED <<vttVars, backendVars>>

(***************************************************************************)
(* main(), the branch that transcribes with AWS: transcript_data is the    *)
(* 'data' of what fetch_transcript returned.                               *)
(***************************************************************************)
\* not transcript_data.get('data')
NoData(td) == td.top \in {"None", "empty_dict"}

\* the except clause of the branch
AwsExcept == IF whisper_available THEN "whisper fallback" ELSE "return 1"

MainNoData ==
    /\ pc = "start"
    /\ main_result = "running"
    /\ NoData(transcript_data)
    /\ main_result' = AwsExcept
    /\ pc' = "not called"
    /\ UNCHANGED <<transcript_data, speaker_map, words, i, current_segment,
                   prev_speaker, prev_end_time, segments, merged_segments,
                   timed_segments, success>>
    /\ UNCHANGED <<video_path, text_regions_by_time, position_map, output_ass,
                   whisper_available>>
    /\ UNCHANGED <<vttVars, backendVars>>

\* the call has returned: its value is dropped
MainReturn ==
    /\ pc = "returned"
    /\ main_result = "running"
    /\ ~NoData(transcript_data)
    /\ main_result' = "return 0"
    /\ UNCHANGED coreVars
    /\ UNCHANGED <<video_path, text_regions_by_time, position_map, output_ass,
                   whisper_available>>
    /\ UNCHANGED <<vttVars, backendVars>>

\* the call has raised
MainExcept ==
    /\ pc = "raised"
    /\ main_result = "running"
    /\ main_result' = AwsExcept
    /\ UNCHANGED coreVars
    /\ UNCHANGED <<video_path, text_regions_by_time, position_map, output_ass,
                   whisper_available>>
    /\ UNCHANGED <<vttVars, backendVars>>

(***************************************************************************)
(* The backend: _convert_aws_transcript_to_webvtt and the code of          *)
(* transcribe_video_to_subtitles that calls it for the WebVTT format.      *)
(***************************************************************************)
\* speaker_mapping: start_time of an item -> speaker_label of its segment
RECURSIVE VttMapSegmentItems(_, _, _)
VttMapSegmentItems(map, speaker, items) ==
    IF items = <<>> THEN map
    ELSE VttMapSegmentItems((Head(items).start_time :> speaker) @@ map,
                            speaker, Tail(items))

RECURSIVE VttSpeakerMapping(_, _)
VttSpeakerMapping(map, speaker_labels) ==
    IF speaker_labels = <<>> THEN map
    ELSE VttSpeakerMapping(
             VttMapSegmentItems(map, Head(speaker_labels).speaker_label,
                                Head(speaker_labels).items),
             Tail(speaker_labels))

\* current_subtitle before the first item: its start_time is None
NoSubtitle ==
    [started |-> FALSE, start_time |-> 0, end_time |-> 0, text |-> <<>>,
     speaker |-> ""]

\* float(item.get(field, 0))
FloatOrZero(field) == IF field.kind = "absent" THEN 0 ELSE field.val

\* one iteration of the loop over items; st holds subtitles, current_subtitle
\* and whether an exception has left the loop
VttItem(st, item, mapping) ==
    IF st.raised THEN st
    ELSE IF item.type = "punctuation"
    THEN IF st.current.text # <<>>
         THEN IF item.alternatives = <<>>
              THEN [st EXCEPT !.raised = TRUE]      \* IndexError
              ELSE [st EXCEPT !.current.text[Len(st.current.text)] =
                                  @ \o item.alternatives[1].content]
         ELSE st
    ELSE IF item.start_time.kind = "text" \/ item.end_time.kind = "text"
    THEN [st EXCEPT !.raised = TRUE]                \* ValueError
    ELSE IF item.alternatives = <<>>
    THEN [st EXCEPT !.raised = TRUE]                \* IndexError
    ELSE LET start_time == FloatOrZero(item.start_time)
             end_time   == FloatOrZero(item.end_time)
             content    == item.alternatives[1].content
             speaker    == IF item.start_time \in DOMAIN mapping
                           THEN mapping[item.start_time] ELSE "Speaker"
         IN  IF \/ ~st.current.started
                \/ start_time - st.current.end_time > VTT_PAUSE
                \/ (st.current.speaker # "" /\ st.current.speaker # speaker)
             THEN [st EXCEPT
                      !.subtitles = IF st.current.started
                                    THEN Append(@, st.current) ELSE @,
                      !.current = [started |-> TRUE, start_time |-> start_time,
                                   end_time |-> end_time, text |-> <<content>>,
                                   speaker |-> speaker]]
             ELSE [st EXCEPT !.current.end_time = end_time,
                             !.current.text = Append(@, content)]

RECURSIVE VttItems(_, _, _)
VttItems(st, items, mapping) ==
    IF items = <<>> THEN st
    ELSE VttItems(VttItem(st, Head(items), mapping), Tail(items), mapping)

\* the subtitles of a transcript whose results is a dict
VttSubtitles(td) ==
    LET mapping == VttSpeakerMapping(EmptyMap, td.speaker_segments)
        st == VttItems([raised |-> FALSE, subtitles |-> <<>>,
                        current |-> NoSubtitle], td.items, mapping)
    IN  [raised |-> st.raised,
         subtitles |-> IF st.current.started
                       THEN Append(st.subtitles, st.current) ELSE st.subtitles]

\* f"{n:03d}"
Pad3(n) == IF n < 10 THEN "00" \o Str(n) ELSE IF n < 100 THEN "0" \o Str(n) ELSE Str(n)

\* _format_timestamp of a time in milliseconds
FormatTimestamp(ms) ==
    LET hours   == ms \div 3600000
        minutes == (ms % 3600000) \div 60000
        seconds == ms % 60000
    IN  Pad2(hours) \o ":" \o Pad2(minutes) \o ":" \o Pad2(seconds \div 1000)
            \o "." \o Pad3(seconds % 1000)

\* the cue the file gets for the k-th subtitle: of its text, the first entry
VttCue(subtitle, k) ==
    [id    |-> "cue" \o Str(k + 1) \o " - " \o subtitle.speaker,
     start |-> FormatTimestamp(subtitle.start_time),
     end   |-> FormatTimestamp(subtitle.end_time),
     text  |-> "[" \o subtitle.speaker \o "] " \o subtitle.text[1]]

\* transcript_data.get and results.get raise on None and on a list
VttReadable(td) == td.top \in {"dict", "empty_dict", "no_results"}

ConvertAwsTranscriptToWebvtt ==
    /\ convert_result = "not called"
    /\ LET r == IF VttReadable(transcript_data)
                THEN VttSubtitles(transcript_data)
                ELSE [raised |-> TRUE, subtitles |-> <<>>]
       IN  IF r.raised
           THEN /\ convert_result' = "raised"
                /\ UNCHANGED <<subtitles, output_vtt>>
           ELSE /\ convert_result' = "returned"
                /\ subtitles' = r.subtitles
                /\ output_vtt' =
                       [exists |-> TRUE,
                        cues |-> [k \in 1..Len(r.subtitles) |->
                                     VttCue(r.subtitles[k], k)]]
    /\ UNCHANGED <<tool, task_status>>
    /\ UNCHANGED <<coreVars, assVars, backendVars>>

TaskCompleted ==
    /\ convert_result = "returned"
    /\ task_status.status = "transcribing"
    /\ task_status' = [status |-> "completed", step |-> "", message |-> ""]
    /\ UNCHANGED <<tool, subtitles, output_vtt, convert_result>>
    /\ UNCHANGED <<coreVars, assVars, backendVars>>

TaskError ==
    /\ convert_result = "raised"
    /\ task_status.step = "processing_transcript"
    /\ tool = "aws"
    /\ task_status' =
           [status |-> "error", step |-> "",
            message |-> "AWS Transcribe failed and no fallback allowed"]
    /\ UNCHANGED <<tool, subtitles, output_vtt, convert_result>>
    /\ UNCHANGED <<coreVars, assVars, backendVars>>

TaskFallBack ==
    /\ convert_result = "raised"
    /\ task_status.step = "processing_transcript"
    /\ tool # "aws"
    /\ task_status' = [status |-> "transcribing",
                       step |-> "falling_back_to_local", message |-> ""]
    /\ UNCHANGED <<tool, subtitles, output_vtt, convert_result>>
    /\ UNCHANGED <<coreVars, assVars, backendVars>>
(***************************************************************************)
(* The background runs of one task id: the routes of processing_router.py  *)
(* and the entry and exit of the service functions they schedule.  Each    *)
(* request has its own BackgroundTasks, and a function that is no          *)
(* coroutine runs in a worker thread once the response is sent.            *)
(***************************************************************************)
RunIds == 1..MaxRuns

NoRun == [kind |-> "none", pc |-> "none"]

\* the request takes the lowest run that is free
FreeRun(r) ==
    /\ runs[r] = NoRun
    /\ \A q \in RunIds : q < r => runs[q] # NoRun

\* POST /subtitle/{task_id}: add_task, whatever runs the task id has
PostSubtitle ==
    /\ \E r \in RunIds :
           /\ FreeRun(r)
           /\ runs' = [runs EXCEPT ![r] = [kind |-> "process_subtitle",
                                           pc |-> "scheduled"]]
    /\ UNCHANGED active_tasks
    /\ UNCHANGED <<coreVars, assVars, vttVars, processVars, whisperVars,
                   serviceVars>>

\* POST /transcribe/{task_id}: the tool is validated, then add_task
PostTranscribe ==
    /\ \E r \in RunIds :
           /\ FreeRun(r)
           /\ runs' = [runs EXCEPT ![r] = [kind |-> "transcribe_video_to_subtitles",
                                           pc |-> "scheduled"]]
    /\ UNCHANGED active_tasks
    /\ UNCHANGED <<coreVars, assVars, vttVars, processVars, whisperVars,
                   serviceVars>>

\* the function is entered: active_tasks[task_id] = {"cancellation_event": ...}
Register ==
    /\ \E r \in RunIds :
           /\ runs[r].pc = "scheduled"
           /\ runs' = [runs EXCEPT ![r].pc = "try"]
           /\ active_tasks' = r
    /\ UNCHANGED <<coreVars, assVars, vttVars, processVars, whisperVars,
                   serviceVars>>

\* the stages of the try block up to the statement that writes the output
RunStages ==
    /\ \E r \in RunIds :
           /\ runs[r].pc = "try"
           /\ runs' = [runs EXCEPT ![r].pc = "save"]
    /\ UNCHANGED active_tasks
    /\ UNCHANGED <<coreVars, assVars, vttVars, processVars, whisperVars,
                   serviceVars>>

\* a return or an exception in the try block: no input file, cancellation
EndEarly ==
    /\ \E r \in RunIds :
           /\ runs[r].pc = "try"
           /\ runs' = [runs EXCEPT ![r].pc = "finally"]
    /\ UNCHANGED active_tasks
    /\ UNCHANGED <<coreVars, assVars, vttVars, processVars, whisperVars,
                   serviceVars>>

\* the output is written and the status set to "completed"
Save ==
    /\ \E r \in RunIds :
           /\ runs[r].pc = "save"
           /\ runs' = [runs EXCEPT ![r].pc = "finally"]
    /\ UNCHANGED active_tasks
    /\ UNCHANGED <<coreVars, assVars, vttVars, processVars, whisperVars,
                   serviceVars>>

\* finally: if task_id in active_tasks: del active_tasks[task_id]
CleanUp ==
    /\ \E r \in RunIds :
           /\ runs[r].pc = "finally"
           /\ runs' = [runs EXCEPT ![r].pc = "returned"]
    /\ active_tasks' = 0
    /\ UNCHANGED <<coreVars, assVars, vttVars, processVars, whisperVars,
                   serviceVars>>

\* a run is executing from the entry of its function to the end of finally
Executing(r) == runs[r].pc \in {"try", "save", "finally"}

(***************************************************************************)
(* process_subtitle, from the loaded subtitles on: the subtitles are       *)
(* positioned (optimize_subtitle_position) and saved in the format the     *)
(* options name (save_subtitles).  A text is a sequence of lines and a     *)
(* line a sequence of words; a speaker label "[A]" that opens the text is  *)
(* the field label.  An item loaded by pysrt has no attribute position and *)
(* no attribute is_new_speaker, which no statement of the source sets.     *)
(***************************************************************************)
SubTexts ==
    {<<<<"a", "b">>>>,
     <<<<"a", "b">>, <<"c">>>>,
     <<<<"a">>, <<"b">>, <<"c">>>>,
     <<<<"a", "b">>, <<"c", "d", "e">>, <<"f", "g">>>>}

\* the start of a subtitle: one second, or the 37th second of the video
SubStarts == {1000, 37500}

\* where Rekognition may find a word: sampled time and the box <<y, h>>
RegionChoices ==
    {<<1000, TopBox>>, <<1000, MiddleBox>>, <<1000, BottomBox>>,
     <<60000, BottomBox>>}

Subtitles ==
    [start : SubStarts, label : {"", "A"}, lines : SubTexts,
     position : {"none"}]

SubEnd(sub) == sub.start + 2000

\* str(sub.start): hh:mm:ss,mmm
SubRipTime(ms) ==
    Pad2(ms \div 3600000) \o ":" \o Pad2((ms % 3600000) \div 60000) \o ":"
        \o Pad2((ms % 60000) \div 1000) \o "," \o Pad3(ms % 1000)

\* '00:00:37' in str(sub.start) or '00:00:38' in str(sub.start)
IsCue4(sub) == SubSeq(SubRipTime(sub.start), 1, 8) \in {"00:00:37", "00:00:38"}

\* the box appended to the detected regions before the positions are chosen:
\* (width//2, int(height*0.8), width//4, height//10)
TestRegion == <<(FrameHeight * 8) \div 10, FrameHeight \div 10>>

\* any(y > height * 0.7 for _, y, _, _ in text_regions)
BottomOccupied(boxes) ==
    \E k \in 1..Len(boxes) : boxes[k][1] * 10 > FrameHeight * 7

\* without Rekognition, without OpenCV or without a video that opens the
\* subtitles come back as they are; otherwise every subtitle gets a position
optimize_subtitle_position(ss, available, regions) ==
    IF ~available THEN ss
    ELSE LET boxes == Append([k \in 1..Len(regions) |-> regions[k][2]],
                             TestRegion)
         IN  [k \in 1..Len(ss) |->
                 [ss[k] EXCEPT !.position =
                     IF IsCue4(ss[k]) THEN "top_center"
                     ELSE IF BottomOccupied(boxes) THEN "top_center"
                     ELSE "bottom_center"]]

\* ' '.join(line.strip() for line in lines).split()
RECURSIVE JoinLines(_)
JoinLines(lines) ==
    IF lines = <<>> THEN <<>> ELSE Head(lines) \o JoinLines(Tail(lines))

\* "Limit to two lines if needed"
TwoLines(lines) ==
    IF Len(lines) > 2
    THEN LET ws == JoinLines(lines)
             midpoint == Len(ws) \div 2
         IN  IF Len(ws) > 6
             THEN <<SubSeq(ws, 1, midpoint), SubSeq(ws, midpoint + 1, Len(ws))>>
             ELSE <<ws>>
    ELSE lines

\* re.sub(r'\[(.*?)\]', replacement, text) on a text that opens with a label
Labelled(sub, replacement) ==
    IF sub.label = "" THEN sub.lines
    ELSE [sub.lines EXCEPT ![1] = replacement \o @]

\* a prefix and a suffix written against the text
Enclosed(lines, prefix, suffix) ==
    LET n == Len(lines)
        opened == [lines EXCEPT ![1] = <<prefix \o Head(@)>> \o Tail(@)]
    IN  [opened EXCEPT ![n] = SubSeq(@, 1, Len(@) - 1)
                                  \o <<@[Len(@)] \o suffix>>]

SrtText(sub) == TwoLines(Labelled(sub, <<"<b>" \o sub.label \o ":</b>">>))

VttText(sub) ==
    Enclosed(TwoLines(Labelled(sub, <<"<v", sub.label \o ">">>)),
             "<c.white><c.bg_black>", "</c></c>")

\* the ASS branch writes the text with the line breaks it has
AssText(sub) == Labelled(sub, <<"{\\b1}" \o sub.label \o "{\\b0}", "--">>)

VttSettings(position) ==
    CASE position = "top_center"    -> " line:10% position:50%"
      [] position = "middle_center" -> " line:50% position:50%"
      [] position = "bottom_left"   -> " line:90% position:20%"
      [] position = "bottom_right"  -> " line:90% position:80%"
      [] OTHER                      -> " line:90% position:50%"

VlcTag(position) ==
    CASE position = "top_center"    -> "{\\an8}"
      [] position = "middle_center" -> "{\\an5}"
      [] position = "bottom_left"   -> "{\\an1}"
      [] position = "bottom_right"  -> "{\\an3}"
      [] OTHER                      -> "{\\an2}"

\* the cue of the k-th subtitle in each branch of save_subtitles
VttEntry(sub, k) ==
    [id |-> IF sub.label = "" THEN "cue" \o Str(k)
            ELSE "cue" \o Str(k) \o " - " \o sub.label,
     start |-> FormatTimestamp(sub.start), end |-> FormatTimestamp(SubEnd(sub)),
     settings |-> VttSettings(sub.position) \o " align:middle",
     text |-> VttText(sub)]

SrtEntry(sub, k) ==
    [id |-> Str(k), start |-> SubRipTime(sub.start),
     end |-> SubRipTime(SubEnd(sub)), settings |-> "", text |-> SrtText(sub)]

VlcSrtEntry(sub, k) ==
    [id |-> Str(k), start |-> SubRipTime(sub.start),
     end |-> SubRipTime(SubEnd(sub)), settings |-> "",
     text |-> Enclosed(SrtText(sub), VlcTag(sub.position), "")]

AssEntry(sub, k) ==
    [id |-> "Dialogue", start |-> format_time_ass(sub.start),
     end |-> format_time_ass(SubEnd(sub)),
     settings |-> IF sub.position = "top_center" THEN "Top" ELSE "Default",
     text |-> AssText(sub)]

\* subs.save(output_path): pysrt writes SubRip, whatever the path is called
PysrtEntry(sub, k) ==
    [id |-> Str(k), start |-> SubRipTime(sub.start),
     end |-> SubRipTime(SubEnd(sub)), settings |-> "",
     text |-> Labelled(sub, <<"[" \o sub.label \o "]">>)]

NoOutput == [syntax |-> "none", cues |-> <<>>]

\* the formats a request may name, and the files a run may write: the task's
\* file of each extension and, for "both", {task_id}_vlc.srt
Formats == {"vtt", "srt", "ass", "vlc_srt", "both", "sub"}

FileNames == {"vtt", "srt", "ass", "vlc_srt", "sub", "_vlc.srt"}

\* the branch of save_subtitles that writes one file
SavedFile(ss, format) ==
    CASE format = "ass" ->
           [syntax |-> "ass", cues |-> [k \in 1..Len(ss) |-> AssEntry(ss[k], k)]]
      [] format = "vlc_srt" ->
           [syntax |-> "srt",
            cues |-> [k \in 1..Len(ss) |-> VlcSrtEntry(ss[k], k)]]
      [] format = "srt" ->
           [syntax |-> "srt", cues |-> [k \in 1..Len(ss) |-> SrtEntry(ss[k], k)]]
      [] format = "vtt" ->
           [syntax |-> "webvtt",
            cues |-> [k \in 1..Len(ss) |-> VttEntry(ss[k], k)]]
      [] OTHER ->
           [syntax |-> "srt",
            cues |-> [k \in 1..Len(ss) |-> PysrtEntry(ss[k], k)]]

\* save_subtitles(subs, output_path, format): the files after the call
save_subtitles(fs, ss, format) ==
    IF format = "both"
    THEN [fs EXCEPT !["vtt"] = SavedFile(ss, "vtt"),
                    !["_vlc.srt"] = SavedFile(ss, "vlc_srt")]
    ELSE [fs EXCEPT ![format] = SavedFile(ss, format)]

\* a run of process_subtitle up to the positions
OptimizePosition ==
    /\ process_status \in {"uploaded", "completed"}
    /\ \E format \in Formats : output_format' = format
    /\ positioned' = optimize_subtitle_position(subs, rekognition, text_regions)
    /\ process_status' = "processing"
    /\ UNCHANGED <<subs, rekognition, text_regions, files>>
    /\ UNCHANGED <<coreVars, assVars, vttVars, taskVars, whisperVars,
                   serviceVars>>

\* the rest of the run: the file is saved and the task completed
SaveSubtitles ==
    /\ process_status = "processing"
    /\ files' = save_subtitles(files, positioned, output_format)
    /\ process_status' = "completed"
    /\ UNCHANGED <<subs, rekognition, text_regions, output_format, positioned>>
    /\ UNCHANGED <<coreVars, assVars, vttVars, taskVars, whisperVars,
                   serviceVars>>

(***************************************************************************)
(* The consumers of a Whisper result: the speaker changes that             *)
(* generate_ass_from_video_whisper and apply_speaker_diarization read off  *)
(* the texts, and the backend's _convert_whisper_result_to_webvtt.         *)
(***************************************************************************)
UpperCase == {"A", "B", "C", "D", "E", "F", "G", "H", "I", "J", "K", "L", "M",
              "N", "O", "P", "Q", "R", "S", "T", "U", "V", "W", "X", "Y", "Z"}

LowerCase == {"a", "b", "c", "d", "e", "f", "g", "h", "i", "j", "k", "l", "m",
              "n", "o", "p", "q", "r", "s", "t", "u", "v", "w", "x", "y", "z"}

CharAt(s, k) == SubSeq(s, k, k)

\* str.strip()
RECURSIVE Strip(_)
Strip(s) ==
    IF s = "" THEN s
    ELSE IF CharAt(s, 1) = " " THEN Strip(SubSeq(s, 2, Len(s)))
    ELSE IF CharAt(s, Len(s)) = " " THEN Strip(SubSeq(s, 1, Len(s) - 1))
    ELSE s

startswith(s, c) == s # "" /\ CharAt(s, 1) = c

endswith(s, c) == s # "" /\ CharAt(s, Len(s)) = c

\* re.match(r'^[A-Z][a-z]+:', s): the position after the lower-case letters
RECURSIVE AfterLower(_, _)
AfterLower(s, k) ==
    IF k <= Len(s) /\ CharAt(s, k) \in LowerCase THEN AfterLower(s, k + 1)
    ELSE k

starts_with_name(s) ==
    /\ Len(s) >= 3
    /\ CharAt(s, 1) \in UpperCase
    /\ CharAt(s, 2) \in LowerCase
    /\ AfterLower(s, 2) <= Len(s)
    /\ CharAt(s, AfterLower(s, 2)) = ":"

sentence_end(prev_text) ==
    \E c \in {".", "?", "!"} : endswith(prev_text, c)

\* (a variant without the question-and-answer heuristic)
LikelyNewSpeakerNoQuestion(prev_text, curr_text) ==
    \/ startswith(curr_text, "-")
    \/ startswith(curr_text, "\"") /\ ~endswith(prev_text, "\"")
    \/ starts_with_name(curr_text)
    \/ sentence_end(prev_text) /\ curr_text # ""
           /\ CharAt(curr_text, 1) \in UpperCase

\* speaker_changes[i] after one iteration of the loop
LikelyNewSpeaker(prev_text, curr_text) ==
    \/ startswith(curr_text, "-")
    \/ startswith(curr_text, "\"") /\ ~endswith(prev_text, "\"")
    \/ starts_with_name(curr_text)
    \/ sentence_end(prev_text) /\ curr_text # ""
           /\ CharAt(curr_text, 1) \in UpperCase
    \/ endswith(prev_text, "?") /\ ~endswith(curr_text, "?")

\* the generic detection on a list of texts
GenericChanges(texts) ==
    [k \in 1..Len(texts) |-> k > 1 /\ LikelyNewSpeaker(texts[k - 1], texts[k])]

\* the changes apply_speaker_diarization fixes by position for the sample
\* video (k counts from 1, the source's i from 0)
SampleVideoChanges(texts) ==
    [k \in 1..Len(texts) |-> k \in {3, 5, 6} \/ (k % 2 = 1 /\ k > 6)]

\* the texts a segment may carry, as Whisper returns them
SegmentTexts ==
    {"and then", " It ended.", "Who?", "- no", "\"yes", "he said \"go\"",
     "Bob: hi", " well?"}

FewTexts == {"Who?", "and then"}

WhisperSegments ==
    [start : {1500}, end : {4000}, text : SegmentTexts]

\* results of up to MaxSegments segments and, for the sample video, of
\* SampleCues segments
WhisperResults ==
    UNION {[1..n -> WhisperSegments] : n \in 0..MaxSegments}
        \cup [1..SampleCues -> [start : {1500}, end : {4000}, text : FewTexts]]

\* generate_ass_from_video_whisper up to the speaker changes
DetectSpeakerChanges ==
    /\ speaker_changes = <<>>
    /\ result # <<>>
    /\ speaker_changes' =
           GenericChanges([k \in 1..Len(result) |-> Strip(result[k].text)])
    /\ UNCHANGED <<result, sample_video, cue_changes, whisper_vtt>>
    /\ UNCHANGED <<coreVars, assVars, vttVars, taskVars, processVars,
                   serviceVars>>

\* apply_speaker_diarization, on the cues of the WebVTT file it is given
ApplySpeakerDiarization ==
    /\ cue_changes = <<>>
    /\ result # <<>>
    /\ LET cue_texts == [k \in 1..Len(result) |-> Strip(result[k].text)]
       IN  cue_changes' =
               IF Len(cue_texts) >= SampleCues /\ sample_video
               THEN SampleVideoChanges(cue_texts)
               ELSE GenericChanges(cue_texts)
    /\ UNCHANGED <<result, sample_video, speaker_changes, whisper_vtt>>
    /\ UNCHANGED <<coreVars, assVars, vttVars, taskVars, processVars,
                   serviceVars>>

\* the WebVTT file of a transcription before the converter has run
NoWebvtt == [exists |-> FALSE, cues |-> <<>>]

\* the digits Python prints after the point for m thousandths
FloatFraction(m) ==
    IF m = 0 THEN "0"
    ELSE IF m % 100 = 0 THEN Str(m \div 100)
    ELSE IF m % 10 = 0 THEN Pad2(m \div 10)
    ELSE Pad3(m)

\* f"{start_time}" of a float of seconds, the time being ms milliseconds
FloatStr(ms) == Str(ms \div 1000) \o "." \o FloatFraction(ms % 1000)

\* the cue _convert_whisper_result_to_webvtt writes for the k-th segment;
\* Whisper's segments carry no speaker, so the label is 'Speaker'
WhisperCue(seg, k) ==
    [id    |-> "cue" \o Str(k + 1) \o " - Speaker",
     start |-> FloatStr(seg.start),
     end   |-> FloatStr(seg.end),
     text  |-> "[Speaker] " \o Strip(seg.text)]

\* _convert_whisper_result_to_webvtt with apply_diarization left at True
ConvertWhisperResultToWebvtt ==
    /\ ~whisper_vtt.exists
    /\ whisper_vtt' =
           [exists |-> TRUE,
            cues   |-> [k \in 1..Len(result) |-> WhisperCue(result[k], k)]]
    /\ UNCHANGED <<result, sample_video, speaker_changes, cue_changes>>
    /\ UNCHANGED <<coreVars, assVars, vttVars, taskVars, processVars,
                   serviceVars>>


(***************************************************************************)
(* _basic_dialogue_detection.  A text is a string whose lines are parted   *)
(* by "\n".                                                                *)
(***************************************************************************)
\* s.startswith(prefix)
HasPrefix(s, prefix) ==
    Len(s) >= Len(prefix) /\ SubSeq(s, 1, Len(prefix)) = prefix

\* s.lstrip()
RECURSIVE lstrip(_)
lstrip(s) ==
    IF s # "" /\ CharAt(s, 1) \in {" ", "\n"}
    THEN lstrip(SubSeq(s, 2, Len(s)))
    ELSE s

\* s.lstrip('-')
RECURSIVE lstrip_dash(_)
lstrip_dash(s) ==
    IF HasPrefix(s, "-") THEN lstrip_dash(SubSeq(s, 2, Len(s))) ELSE s

\* s.SplitLines('\n')
RECURSIVE SplitLines(_)
SplitLines(s) ==
    IF \E k \in 1..Len(s) : CharAt(s, k) = "\n"
    THEN LET k == CHOOSE m \in 1..Len(s) :
                      /\ CharAt(s, m) = "\n"
                      /\ \A n \in 1..(m - 1) : CharAt(s, n) # "\n"
         IN  <<SubSeq(s, 1, k - 1)>> \o SplitLines(SubSeq(s, k + 1, Len(s)))
    ELSE <<s>>

\* '\n'.JoinText(lines)
RECURSIVE JoinText(_)
JoinText(lines) ==
    IF Len(lines) = 1 THEN lines[1]
    ELSE lines[1] \o "\n" \o JoinText(Tail(lines))

\* the text, or the line, looks like dialogue and has one dash only
SingleDash(s) == HasPrefix(lstrip(s), "-") /\ ~HasPrefix(lstrip(s), "--")

\* "Make sure it has two dashes at the beginning"
TwoDashes(s) == IF SingleDash(s) THEN "-- " \o lstrip(lstrip_dash(s)) ELSE s

\* "Add speaker labels for clarity", on the lines of a text of several lines:
\* the text is put together again only if more than one line opens with '--'
LabelSpeakers(lines) ==
    LET speaker_lines == {k \in 1..Len(lines) : HasPrefix(lstrip(lines[k]), "--")}
    IN  [k \in 1..Len(lines) |->
            IF k \in speaker_lines
            THEN (IF (k - 1) % 2 = 0 THEN "[Speaker A] " ELSE "[Speaker B] ")
                     \o lines[k]
            ELSE lines[k]]

\* the body of the loop of _basic_dialogue_detection: the new text of a
\* subtitle
DetectedText(sub_text) ==
    LET text  == TwoDashes(sub_text)
        lines == [k \in 1..Len(SplitLines(text)) |-> TwoDashes(SplitLines(text)[k])]
    IN  IF Len(lines) > 1
             /\ Cardinality({k \in 1..Len(lines) :
                                 HasPrefix(lstrip(lines[k]), "--")}) > 1
        THEN JoinText(LabelSpeakers(lines))
        ELSE text

\* the texts of the subtitles of an upload; the first three are those of
\* test_basic_dialogue_detection
DialogueTexts ==
    {"Hello, how are you today?", "- I'm doing well, thank you.",
     "- That's great to hear!\n- Yes, it's a beautiful day.",
     "-- So", " - and", "-No", "Well\n- then", "One\nTwo", "Hi\n- a\n- b",
     "-\n- b"}

_basic_dialogue_detection ==
    /\ dialogue_subs # <<>>
    /\ detected_subs = <<>>
    /\ detected_subs' =
           [k \in 1..Len(dialogue_subs) |-> DetectedText(dialogue_subs[k])]
    /\ UNCHANGED dialogue_subs
    /\ UNCHANGED pollVars
    /\ UNCHANGED <<coreVars, assVars, vttVars, taskVars, processVars,
                   whisperVars, runVars>>


(***************************************************************************)
(* The loops that poll an AWS transcription job.                           *)
(***************************************************************************)
\* what check_transcription_job_status returns on a job of the given status:
\* that of backend.utils.aws_transcribe ("enhanced"), which the CLI imports
\* first, reports a failed job with success False; that of
\* backend.utils.aws_utils ("original") reports every status with success
\* True
check_transcription_job_status(utilities, status) ==
    IF utilities = "enhanced" /\ status = "FAILED"
    THEN [success |-> FALSE, status |-> status]
    ELSE [success |-> TRUE, status |-> status]

\* the loops: wait_for_transcription_job of the CLI on either utilities, and
\* the loops of diarize_speakers and of synchronize_subtitles
WaitLoops == {"wait_enhanced", "wait_original"}

WhileTrueLoops == {"diarize_speakers", "synchronize_subtitles"}

UtilitiesOf(lp) == IF lp = "wait_enhanced" THEN "enhanced" ELSE "original"

\* the job moves on at AWS
JobAdvance ==
    /\ \/ job_status = "QUEUED" /\ job_status' \in {"IN_PROGRESS", "FAILED"}
       \/ job_status = "IN_PROGRESS" /\ job_status' \in {"COMPLETED", "FAILED"}
    /\ UNCHANGED <<loop, attempts, poll_result>>
    /\ UNCHANGED dialogueVars
    /\ UNCHANGED <<coreVars, assVars, vttVars, taskVars, processVars,
                   whisperVars, runVars>>

\* what one attempt of wait_for_transcription_job makes of the result
WaitOutcome(res) ==
    IF res.success /\ res.status = "COMPLETED" THEN "transcript_uri"
    ELSE IF res.success /\ res.status \in {"FAILED", "ERROR"} THEN "None"
    ELSE "polling"

\* one attempt of wait_for_transcription_job that reaches the status check
WaitAttempt ==
    /\ loop \in WaitLoops
    /\ poll_result = "polling"
    /\ attempts < max_attempts
    /\ attempts' = attempts + 1
    /\ poll_result' =
           WaitOutcome(check_transcription_job_status(UtilitiesOf(loop),
                                                      job_status))
    /\ UNCHANGED <<job_status, loop>>
    /\ UNCHANGED dialogueVars
    /\ UNCHANGED <<coreVars, assVars, vttVars, taskVars, processVars,
                   whisperVars, runVars>>

\* the attempts are used up, or an attempt after the first finds that more
\* than timeout_seconds have passed
WaitTimedOut ==
    /\ loop \in WaitLoops
    /\ poll_result = "polling"
    /\ attempts > 0
    /\ poll_result' = "None"
    /\ UNCHANGED <<job_status, loop, attempts>>
    /\ UNCHANGED dialogueVars
    /\ UNCHANGED <<coreVars, assVars, vttVars, taskVars, processVars,
                   whisperVars, runVars>>

\* one round of a "while True" loop: it is left when the status is COMPLETED
\* or FAILED, and nothing counts the rounds
WhileTrueRound ==
    /\ loop \in WhileTrueLoops
    /\ poll_result = "polling"
    /\ poll_result' = IF job_status \in {"COMPLETED", "FAILED"}
                      THEN "break" ELSE "polling"
    /\ UNCHANGED <<job_status, loop, attempts>>
    /\ UNCHANGED dialogueVars
    /\ UNCHANGED <<coreVars, assVars, vttVars, taskVars, processVars,
                   whisperVars, runVars>>

\* a step of the thread that runs the loop
PollStep == WaitAttempt \/ WaitTimedOut \/ WhileTrueRound

(***************************************************************************)
(* One run of a service function of processing_service.py on a task: the   *)
(* background task of a route runs process_subtitle or                      *)
(* transcribe_video_to_subtitles in a worker thread, and the route          *)
(* /cancel/{task_id} asks it to stop from another thread.  A step ends      *)
(* where the function calls out (a tool, a file, AWS) or reads the event,   *)
(* so that the other thread may act between two steps.                      *)
(***************************************************************************)
Tools == {"aws", "whisper", "ffmpeg", "auto", "azure"}

NoCall == [tool |-> "none", CAN_USE_TRANSCRIBE |-> FALSE, whisper |-> FALSE]

\* the progress of an update whose details hold no "progress"
NoProgress == -1

TerminalStatuses == {"completed", "error", "cancelled"}

\* update_task_status: task_status[task_id] is replaced by the status and
\* the details given, and the log keeps the calls in their order
update_task_status(log, status, progress) ==
    Append(log, [status |-> status, progress |-> progress])

\* what both functions leave alone in every step
RunFrame ==
    /\ UNCHANGED <<func, call, cancellation_event, in_active_tasks,
                   set_before_save>>
    /\ UNCHANGED <<dialogueVars, pollVars>>
    /\ UNCHANGED <<coreVars, assVars, vttVars, taskVars, processVars,
                   whisperVars>>

\* a step that writes no output file and leaves polls alone
Goto(to, log) ==
    /\ run_pc' = to
    /\ status_log' = log
    /\ UNCHANGED <<polls, output_saved>>
    /\ RunFrame

\* a step that writes the output file
GotoSaved(to, log) ==
    /\ run_pc' = to
    /\ status_log' = log
    /\ output_saved' = TRUE
    /\ UNCHANGED polls
    /\ RunFrame

\* the function is entered: the event is created and registered, and the
\* first status is written
EnterRun(function, status, to) ==
    /\ func = function
    /\ run_pc = "scheduled"
    /\ run_pc' = to
    /\ cancellation_event' = FALSE
    /\ in_active_tasks' = TRUE
    /\ status_log' = update_task_status(status_log, status, 0)
    /\ UNCHANGED <<func, call, polls, output_saved, set_before_save>>
    /\ UNCHANGED <<dialogueVars, pollVars>>
    /\ UNCHANGED <<coreVars, assVars, vttVars, taskVars, processVars,
                   whisperVars>>

\* "Check for cancellation"
CheckCancellation(at, to) ==
    /\ run_pc = at
    /\ IF cancellation_event
       THEN Goto("finally", update_task_status(status_log, "cancelled",
                                                NoProgress))
       ELSE Goto(to, status_log)

\* the except clause of the function
OuterExcept ==
    Goto("finally", update_task_status(status_log, "error", NoProgress))

(***************************************************************************)
(* transcribe_video_to_subtitles                                            *)
(***************************************************************************)
use_aws == call.tool \in {"aws", "auto"} /\ call.CAN_USE_TRANSCRIBE

use_whisper == call.tool \in {"whisper", "auto"} /\ call.whisper

use_ffmpeg == call.tool \in {"ffmpeg", "auto"}

\* where the function goes on when Whisper is not used or has failed
AfterWhisper == IF use_ffmpeg THEN "ffmpeg_detect" ELSE "no_tool"

\* where it goes on when AWS is not used or has failed
AfterAws == IF use_whisper THEN "whisper_load" ELSE AfterWhisper

EnterTranscribe ==
    EnterRun("transcribe_video_to_subtitles", "transcribing", "video_path")

\* the video of the task is looked up and the directories are made
GetVideoPath ==
    /\ func = "transcribe_video_to_subtitles"
    /\ run_pc = "video_path"
    /\ \E found \in {"found", "None", "raised"} :
          CASE found = "found" ->
                   Goto(IF use_aws THEN "upload" ELSE AfterAws, status_log)
            [] found = "None" ->
                   Goto("finally", update_task_status(status_log, "error",
                                                      NoProgress))
            [] found = "raised" -> OuterExcept

UploadToS3 ==
    /\ run_pc = "upload"
    /\ \E uploaded \in BOOLEAN :
          Goto(IF uploaded THEN "start_job" ELSE "aws_failed",
               update_task_status(status_log, "transcribing", 10))

StartTranscriptionJob ==
    /\ run_pc = "start_job"
    /\ \E started \in BOOLEAN :
          /\ run_pc' = IF started THEN "poll" ELSE "aws_failed"
          /\ status_log' = update_task_status(status_log, "transcribing", 20)
          /\ polls' = 0
          /\ UNCHANGED output_saved
          /\ RunFrame

\* the head of a round of the polling loop
CheckCancellationInLoop ==
    /\ polls < max_polls
    /\ CheckCancellation("poll", "sleep")

\* the loop is left with the job not completed
PollTimedOut ==
    /\ run_pc = "poll"
    /\ polls >= max_polls
    /\ Goto("aws_failed", status_log)

\* progress = min(20 + int(polls / max_polls * 60), 80)
PollProgress(n) == Min(20 + ((n * 60) \div max_polls), 80)

\* the rest of a round: the sleep, the status check and what follows from it
PollJob ==
    /\ run_pc = "sleep"
    /\ polls' = polls + 1
    /\ UNCHANGED output_saved
    /\ RunFrame
    /\ LET polled == update_task_status(status_log, "transcribing",
                                        PollProgress(polls + 1))
       IN  \E checked \in {"no success", "QUEUED", "IN_PROGRESS", "COMPLETED",
                           "FAILED"} :
              CASE checked = "no success" ->
                       /\ run_pc' = "aws_failed"
                       /\ status_log' = status_log
                [] checked = "FAILED" ->
                       /\ run_pc' = "aws_failed"
                       /\ status_log' = polled
                [] checked = "COMPLETED" ->
                       /\ \E fetched \in BOOLEAN :
                             run_pc' = IF fetched THEN "aws_convert"
                                       ELSE "aws_failed"
                       /\ status_log' =
                             update_task_status(polled, "transcribing", 85)
                [] OTHER ->
                       /\ run_pc' = "poll"
                       /\ status_log' = polled

\* the transcript is converted and written, and the task is completed
ConvertAwsTranscript ==
    /\ run_pc = "aws_convert"
    /\ \E converted \in BOOLEAN :
          IF converted
          THEN GotoSaved("finally",
                         update_task_status(status_log, "completed", 100))
          ELSE Goto("aws_failed", status_log)

\* except Exception of the AWS part
AwsFailed ==
    /\ run_pc = "aws_failed"
    /\ IF call.tool = "aws"
       THEN Goto("finally", update_task_status(status_log, "error",
                                                NoProgress))
       ELSE Goto(AfterAws, update_task_status(status_log, "transcribing", 30))

LoadWhisperModel ==
    /\ run_pc = "whisper_load"
    /\ \E loaded \in BOOLEAN :
          Goto(IF loaded THEN "whisper_transcribe" ELSE "whisper_failed",
               update_task_status(status_log, "transcribing", 40))

WhisperTranscribe ==
    /\ run_pc = "whisper_transcribe"
    /\ \E transcribed \in BOOLEAN :
          Goto(IF transcribed THEN "whisper_convert" ELSE "whisper_failed",
               update_task_status(status_log, "transcribing", 50))

ConvertWhisperResult ==
    /\ run_pc = "whisper_convert"
    /\ LET processing == update_task_status(status_log, "transcribing", 80)
       IN  \E converted \in BOOLEAN :
              IF converted
              THEN GotoSaved("finally",
                             update_task_status(processing, "completed", 100))
              ELSE Goto("whisper_failed", processing)

\* except Exception of the Whisper part
WhisperFailed ==
    /\ run_pc = "whisper_failed"
    /\ IF call.tool = "whisper"
       THEN Goto("finally", update_task_status(status_log, "error",
                                                NoProgress))
       ELSE Goto(AfterWhisper, status_log)

\* the silence detection of ffmpeg and the temporary file of its segments
FfmpegDetect ==
    /\ run_pc = "ffmpeg_detect"
    /\ LET detecting == update_task_status(status_log, "transcribing", 60)
       IN  \E detected \in BOOLEAN :
              IF detected
              THEN Goto("ffmpeg_finalize", detecting)
              ELSE Goto("finally", update_task_status(detecting, "error",
                                                      NoProgress))

FfmpegFinalize ==
    /\ run_pc = "ffmpeg_finalize"
    /\ LET finalizing == update_task_status(status_log, "transcribing", 90)
       IN  \E copied \in BOOLEAN :
              IF copied
              THEN GotoSaved("finally",
                             update_task_status(finalizing, "completed", 100))
              ELSE Goto("finally", update_task_status(finalizing, "error",
                                                      NoProgress))

\* "If we get here, none of the selected tools worked"
NoSuitableTool ==
    /\ run_pc = "no_tool"
    /\ Goto("finally", update_task_status(status_log, "error", NoProgress))

(***************************************************************************)
(* process_subtitle                                                         *)
(***************************************************************************)
EnterProcess == EnterRun("process_subtitle", "processing", "load")

\* load_subtitles, as tests/test_processing.py expects it: the subtitles of
\* the file
load_subtitles(parsed) == IF parsed THEN "subs" ELSE "None"

\* the subtitle file is looked up and loaded
LoadSubtitles ==
    /\ func = "process_subtitle"
    /\ run_pc = "load"
    /\ \E found \in BOOLEAN, parsed \in BOOLEAN :
          IF found /\ load_subtitles(parsed) = "subs"
          THEN Goto("check_loaded",
                    update_task_status(status_log, "processing", 10))
          ELSE Goto("finally", update_task_status(status_log, "error",
                                                  NoProgress))

CheckAfterLoad == CheckCancellation("check_loaded", "invalid_chars")

\* a stage whose exception is logged: the option is off, the stage raised
\* (no update), or it is done
LoggedStage(at, to, progress) ==
    /\ run_pc = at
    /\ \E done \in BOOLEAN :
          Goto(to, IF done
                   THEN update_task_status(status_log, "processing", progress)
                   ELSE status_log)

\* a stage whose exception leaves the try block
Stage(at, to, progress) ==
    /\ run_pc = at
    /\ \E ended \in {"off", "done", "raised"} :
          CASE ended = "off" -> Goto(to, status_log)
            [] ended = "done" ->
                   Goto(to, update_task_status(status_log, "processing",
                                               progress))
            [] ended = "raised" -> OuterExcept

RemoveInvalidChars == LoggedStage("invalid_chars", "check_invalid_chars", 20)

CheckAfterInvalidChars == CheckCancellation("check_invalid_chars", "duplicates")

RemoveDuplicates == LoggedStage("duplicates", "grammar", 30)

\* the fallback of the grammar stage may raise too
CorrectGrammar ==
    \/ LoggedStage("grammar", "check_grammar", 50)
    \/ run_pc = "grammar" /\ OuterExcept

CheckAfterGrammar == CheckCancellation("check_grammar", "position")

PositionStage == Stage("position", "sync", 60)

SyncStage == Stage("sync", "diarize", 70)

DiarizeStage == Stage("diarize", "translate", 80)

TranslateStage == Stage("translate", "save", 90)

\* save_subtitles, and the task is completed
SaveProcessed ==
    /\ run_pc = "save"
    /\ \E saved \in BOOLEAN :
          IF saved
          THEN GotoSaved("finally",
                         update_task_status(status_log, "completed", 100))
          ELSE OuterExcept

\* a finally clause that leaves the entry of the task in active_tasks
FinallyKeepEntry ==
    /\ run_pc = "finally"
    /\ run_pc' = "returned"
    /\ in_active_tasks' = in_active_tasks
    /\ UNCHANGED <<func, call, polls, cancellation_event, status_log,
                   output_saved, set_before_save>>
    /\ UNCHANGED <<dialogueVars, pollVars>>
    /\ UNCHANGED <<coreVars, assVars, vttVars, taskVars, processVars,
                   whisperVars>>

\* finally: if task_id in active_tasks: del active_tasks[task_id]
Finally ==
    /\ run_pc = "finally"
    /\ run_pc' = "returned"
    /\ in_active_tasks' = FALSE
    /\ UNCHANGED <<func, call, polls, cancellation_event, status_log,
                   output_saved, set_before_save>>
    /\ UNCHANGED <<dialogueVars, pollVars>>
    /\ UNCHANGED <<coreVars, assVars, vttVars, taskVars, processVars,
                   whisperVars>>

\* cancel_task, which the route /cancel/{task_id} calls: the event of a
\* registered task is set
cancel_task ==
    /\ in_active_tasks
    /\ cancellation_event' = TRUE
    /\ set_before_save' = (set_before_save \/ ~output_saved)
    /\ UNCHANGED <<func, call, run_pc, polls, in_active_tasks, status_log,
                   output_saved>>
    /\ UNCHANGED <<dialogueVars, pollVars>>
    /\ UNCHANGED <<coreVars, assVars, vttVars, taskVars, processVars,
                   whisperVars>>


InitCore ==
    /\ pc = "start"
    /\ speaker_map = EmptyMap
    /\ words = <<>>
    /\ i = 1
    /\ current_segment = NoSegment
    /\ prev_speaker = ""
    /\ prev_end_time = 0
    /\ segments = <<>>
    /\ merged_segments = <<>>
    /\ timed_segments = <<>>
    /\ success = FALSE

InitAssVars ==
    /\ text_regions_by_time = EmptyMap
    /\ position_map = <<>>
    /\ output_ass = NoFile
    /\ main_result = "running"

InitVttVars ==
    /\ subtitles = <<>>
    /\ output_vtt = [exists |-> FALSE, cues |-> <<>>]
    /\ convert_result = "not called"
    /\ task_status = [status |-> "transcribing", step |-> "processing_transcript",
                      message |-> ""]

\* no request has been made for the task
InitTaskVars ==
    /\ runs = [r \in RunIds |-> NoRun]
    /\ active_tasks = 0

\* nothing is uploaded
InitProcessVars ==
    /\ subs = <<>>
    /\ rekognition = FALSE
    /\ text_regions = <<>>
    /\ output_format = ""
    /\ positioned = <<>>
    /\ files = [f \in FileNames |-> NoOutput]
    /\ process_status = "uploaded"

\* no transcription has been made
InitWhisperVars ==
    /\ result = <<>>
    /\ sample_video = FALSE
    /\ speaker_changes = <<>>
    /\ cue_changes = <<>>
    /\ whisper_vtt = NoWebvtt

\* nothing has been given to the detection
InitDialogueVars ==
    /\ dialogue_subs = <<>>
    /\ detected_subs = <<>>

\* no job is polled
InitPollVars ==
    /\ job_status = "QUEUED"
    /\ loop = "none"
    /\ attempts = 0
    /\ poll_result = "polling"

\* no background task runs
InitRunVars ==
    /\ func = "none"
    /\ call = NoCall
    /\ run_pc = "none"
    /\ polls = 0
    /\ cancellation_event = FALSE
    /\ in_active_tasks = FALSE
    /\ status_log = <<>>
    /\ output_saved = FALSE
    /\ set_before_save = FALSE

InitServiceVars ==
    /\ InitDialogueVars
    /\ InitPollVars
    /\ InitRunVars

InitBackendVars ==
    /\ InitTaskVars
    /\ InitProcessVars
    /\ InitWhisperVars
    /\ InitServiceVars

\* the converters at rest, for the specifications of the rest of the service
IdleConverters ==
    /\ transcript_data = [top |-> "None", items |-> <<>>,
                          speaker_segments |-> <<>>]
    /\ InitCore
    /\ InitAssVars
    /\ video_path = "None"
    /\ whisper_available = TRUE
    /\ InitVttVars
    /\ tool = "aws"

Init ==
    /\ transcript_data \in CoreTranscripts
    /\ InitCore
    /\ InitAssVars
    /\ video_path = "exists"
    /\ whisper_available = TRUE
    /\ InitVttVars
    /\ tool = "aws"
    /\ InitBackendVars

Next ==
    \/ Validate
    \/ Normalize
    \/ SegmentInit
    \/ SegmentStep
    \/ SegmentFinish
    \/ Merge
    \/ MinDuration

Spec == Init /\ [][Next]_vars

\* the whole of parse_aws_transcript_to_ass and the code of main() around it
InitAss ==
    /\ transcript_data \in AssTranscripts
    /\ InitCore
    /\ InitAssVars
    /\ video_path \in {"None", "missing", "exists"}
    /\ whisper_available \in BOOLEAN
    /\ InitVttVars
    /\ tool = "aws"
    /\ InitBackendVars

NextAss ==
    \/ Validate
    \/ Normalize
    \/ SegmentInit
    \/ SegmentStep
    \/ SegmentFinish
    \/ Merge
    \/ MinDuration
    \/ NoVideo
    \/ DetectUnavailable
    \/ DetectText
    \/ WriteAss
    \/ MainNoData
    \/ MainReturn
    \/ MainExcept

SpecAss == InitAss /\ [][NextAss]_vars

\* the backend task that converts a fetched transcript to WebVTT
InitVtt ==
    /\ transcript_data \in VttTranscripts
    /\ InitCore
    /\ InitAssVars
    /\ video_path = "None"
    /\ whisper_available = TRUE
    /\ InitVttVars
    /\ tool \in {"aws", "auto"}
    /\ InitBackendVars

NextVtt ==
    \/ ConvertAwsTranscriptToWebvtt
    \/ TaskCompleted
    \/ TaskError
    \/ TaskFallBack

SpecVtt == InitVtt /\ [][NextVtt]_vars

\* one task id and the requests made for it
InitTasks ==
    /\ IdleConverters
    /\ InitBackendVars

NextTasks ==
    \/ PostSubtitle
    \/ PostTranscribe
    \/ Register
    \/ RunStages
    \/ EndEarly
    \/ Save
    \/ CleanUp

SpecTasks == InitTasks /\ [][NextTasks]_vars

\* the subtitles of an upload, processed into one format after another
InitProcess ==
    /\ IdleConverters
    /\ InitTaskVars
    /\ InitWhisperVars
    /\ InitServiceVars
    /\ subs \in UNION {[1..n -> Subtitles] : n \in 1..MaxSubs}
    /\ rekognition \in BOOLEAN
    /\ text_regions \in UNION {[1..n -> RegionChoices] : n \in 0..MaxRegions}
    /\ output_format = ""
    /\ positioned = <<>>
    /\ files = [f \in FileNames |-> NoOutput]
    /\ process_status = "uploaded"

NextProcess ==
    \/ OptimizePosition
    \/ SaveSubtitles

SpecProcess == InitProcess /\ [][NextProcess]_vars

\* a Whisper result and what is made of it
InitWhisper ==
    /\ IdleConverters
    /\ InitTaskVars
    /\ InitProcessVars
    /\ InitServiceVars
    /\ result \in WhisperResults
    /\ sample_video \in BOOLEAN
    /\ speaker_changes = <<>>
    /\ cue_changes = <<>>
    /\ whisper_vtt = NoWebvtt

NextWhisper ==
    \/ DetectSpeakerChanges
    \/ ApplySpeakerDiarization
    \/ ConvertWhisperResultToWebvtt

SpecWhisper == InitWhisper /\ [][NextWhisper]_vars

\* subtitles given to the dialogue detection
InitDialogue ==
    /\ IdleConverters
    /\ InitTaskVars
    /\ InitProcessVars
    /\ InitWhisperVars
    /\ dialogue_subs \in UNION {[1..n -> DialogueTexts] : n \in 1..MaxDialogueSubs}
    /\ detected_subs = <<>>
    /\ InitPollVars
    /\ InitRunVars

NextDialogue ==
    \/ _basic_dialogue_detection

SpecDialogue == InitDialogue /\ [][NextDialogue]_vars

\* a transcription job and a loop that polls it
InitPoll ==
    /\ IdleConverters
    /\ InitTaskVars
    /\ InitProcessVars
    /\ InitWhisperVars
    /\ InitDialogueVars
    /\ job_status \in {"QUEUED", "IN_PROGRESS"}
    /\ loop \in WaitLoops \cup WhileTrueLoops
    /\ attempts = 0
    /\ poll_result = "polling"
    /\ InitRunVars

NextPoll ==
    \/ JobAdvance
    \/ WaitAttempt
    \/ WaitTimedOut
    \/ WhileTrueRound

SpecPoll == InitPoll /\ [][NextPoll]_vars

\* the thread that runs the loop is not held up for ever
SpecPollLive == SpecPoll /\ WF_vars(PollStep)

\* a background task that runs one of the two service functions
InitRun ==
    /\ IdleConverters
    /\ InitTaskVars
    /\ InitProcessVars
    /\ InitWhisperVars
    /\ InitDialogueVars
    /\ InitPollVars
    /\ \/ /\ func = "transcribe_video_to_subtitles"
          /\ call \in [tool : Tools, CAN_USE_TRANSCRIBE : BOOLEAN,
                       whisper : BOOLEAN]
       \/ /\ func = "process_subtitle"
          /\ call = NoCall
    /\ run_pc = "scheduled"
    /\ polls = 0
    /\ cancellation_event = FALSE
    /\ in_active_tasks = FALSE
    /\ status_log = <<>>
    /\ output_saved = FALSE
    /\ set_before_save = FALSE

NextRun ==
    \/ EnterTranscribe
    \/ GetVideoPath
    \/ UploadToS3
    \/ StartTranscriptionJob
    \/ CheckCancellationInLoop
    \/ PollTimedOut
    \/ PollJob
    \/ ConvertAwsTranscript
    \/ AwsFailed
    \/ LoadWhisperModel
    \/ WhisperTranscribe
    \/ ConvertWhisperResult
    \/ WhisperFailed
    \/ FfmpegDetect
    \/ FfmpegFinalize
    \/ NoSuitableTool
    \/ EnterProcess
    \/ LoadSubtitles
    \/ CheckAfterLoad
    \/ RemoveInvalidChars
    \/ CheckAfterInvalidChars
    \/ RemoveDuplicates
    \/ CorrectGrammar
    \/ CheckAfterGrammar
    \/ PositionStage
    \/ SyncStage
    \/ DiarizeStage
    \/ TranslateStage
    \/ SaveProcessed
    \/ Finally
    \/ cancel_task

SpecRun == InitRun /\ [][NextRun]_vars

(***************************************************************************)
(* Properties.                                                             *)
(***************************************************************************)
NoOverlap(cues) ==
    \A k \in 1..(Len(cues) - 1) : cues[k].end_time <= cues[k + 1].start_time

\* every token has startTime <= endTime and the startTimes do not decrease
WordsInOrder ==
    /\ \A k \in 1..Len(words) : words[k].start_time <= words[k].end_time
    /\ \A k \in 1..(Len(words) - 1) :
           words[k].start_time <= words[k + 1].start_time

\* no token ends after the next one starts
WordsDisjoint ==
    \A k \in 1..(Len(words) - 1) : words[k].end_time <= words[k + 1].start_time

\* C1: after same-speaker merging and minimum-duration extension, every cue
\* ends at or before the start of the next cue (stated here for transcripts
\* whose words do not overlap one another, so that an overlap of cues can
\* only come from the merger stage).
C1_NoOverlapAfterMerge ==
    (pc = "position" /\ WordsInOrder /\ WordsDisjoint)
        => NoOverlap(timed_segments)

\* C2: after the Cue Merger stage every cue lasts at least MIN_DURATION.
C2_MinimumDuration ==
    \A k \in 1..Len(timed_segments) :
        timed_segments[k].end_time - timed_segments[k].start_time >= MIN_DURATION

\* C2 witness: the stage has run on a cue that was shorter than MIN_DURATION.
C2_Witness ==
    /\ pc = "position"
    /\ \E k \in 1..Len(merged_segments) :
           merged_segments[k].end_time - merged_segments[k].start_time
               < MIN_DURATION

\* C3: a cue the segmenter marked speaker_changed starts a cue of its own in
\* the merged sequence: some merged cue starts with its first word, at its
\* start time, for its speaker, and is still marked.
C3_SpeakerChangeNeverMerged ==
    merged_segments # <<>> =>
        \A k \in 1..Len(segments) :
            segments[k].speaker_changed =>
                \E m \in 1..Len(merged_segments) :
                    /\ merged_segments[m].start_time = segments[k].start_time
                    /\ merged_segments[m].text[1] = segments[k].text[1]
                    /\ merged_segments[m].speaker = segments[k].speaker
                    /\ merged_segments[m].speaker_changed

\* C3 witness: the merger has merged some cue, and has met a marked cue that
\* is shorter than MIN_DURATION and closer than MERGE_GAP to the cue before.
C3_Witness ==
    /\ merged_segments # <<>>
    /\ Len(merged_segments) < Len(segments)
    /\ \E k \in 2..Len(segments) :
           /\ segments[k].speaker_changed
           /\ segments[k].end_time - segments[k].start_time < MIN_DURATION
           /\ segments[k].start_time - segments[k - 1].end_time < MERGE_GAP
           /\ segments[k].start_time - segments[k - 1].end_time >= 0

\* C5 as claimed: for every token stream in order, the cues of the segmenter
\* do not overlap.
C5_SegmenterNoOverlap == WordsInOrder => NoOverlap(segments)

\* C5 as amended: the same, for token streams in which moreover no token
\* ends after the next token starts.
C5_SegmenterNoOverlapDisjointWords ==
    (WordsInOrder /\ WordsDisjoint) => NoOverlap(segments)

\* C5 witness: the segmenter has cut such a stream into several cues.
C5_Witness ==
    /\ pc = "merge"
    /\ WordsInOrder /\ WordsDisjoint
    /\ Len(segments) >= 3

\* the call of parse_aws_transcript_to_ass has ended
CallEnded == pc \in {"returned", "raised"}

\* C4: when no text regions are supplied (the detector is unavailable or
\* fails, it finds no text, or no video is given), the call on a transcript
\* with cues still succeeds, and every Dialogue line has the Default style.
C4_NoRegionsDefaultPlacement ==
    (CallEnded /\ timed_segments # <<>> /\ text_regions_by_time = EmptyMap)
        => /\ pc = "returned"
           /\ success
           /\ output_ass.exists
           /\ Len(output_ass.events) = Len(timed_segments)
           /\ \A k \in 1..Len(output_ass.events) :
                  output_ass.events[k].style = "Default"

\* the position resolved for a cue: the one detect_text_in_video computes for
\* it, the default when there is no detection
ResolvedPosition(seg) ==
    IF position_map = <<>> THEN "bottom_center"
    ELSE ResolvePosition(seg, text_regions_by_time)

\* C6: every Dialogue line of the ASS file names the style of the position
\* resolved for its own cue: Default for bottom_center, Top for top_center,
\* RaisedBottom for raised_bottom (stated here for cue sequences in which no
\* cue ends after the next one starts).
C6_DialogueStyleOfOwnPosition ==
    (output_ass.exists /\ NoOverlap(timed_segments))
        => \A k \in 1..Len(output_ass.events) :
               output_ass.events[k].style =
                   (CASE ResolvedPosition(timed_segments[k]) = "bottom_center"
                            -> "Default"
                      [] ResolvedPosition(timed_segments[k]) = "top_center"
                            -> "Top"
                      [] ResolvedPosition(timed_segments[k]) = "raised_bottom"
                            -> "RaisedBottom")

\* C7: when parse_aws_transcript_to_ass has reported an empty or invalid
\* transcript (it returned False), main() does not end with the exit result
\* of a success.
C7_InvalidTranscriptIsFailure ==
    (pc = "returned" /\ ~success /\ main_result # "running")
        => main_result # "return 0"

\* a whole-transcript anomaly: the top-level shape is wrong, or no item of
\* the transcript is a usable word
WholeTranscriptAnomaly(td) ==
    \/ td.top \in AnomalousTops
    \/ NormalizeItems(<<>>, td.items,
                      BuildSpeakerMap(EmptyMap, td.speaker_segments)) = <<>>

\* C8: a transcript with a whole-transcript anomaly ends the conversion to
\* WebVTT with the converter's error (the exception it raises for its
\* caller), never with a written file, and the task is never completed.
C8_AnomalyIsTerminalError ==
    (convert_result # "not called" /\ WholeTranscriptAnomaly(transcript_data))
        => /\ convert_result = "raised"
           /\ ~output_vtt.exists
           /\ task_status.status # "completed"

\* an item with both timestamps and a content
WellFormedItem(item) ==
    /\ item.type = "pronunciation"
    /\ item.start_time.kind = "num" /\ item.end_time.kind = "num"
    /\ item.alternatives # <<>> /\ item.alternatives[1].content # ""

\* an item without a start or an end timestamp, or without a content
MalformedItem(item) ==
    /\ item.type = "pronunciation"
    /\ \/ item.start_time.kind = "absent" \/ item.end_time.kind = "absent"
       \/ item.alternatives = <<>> \/ item.alternatives[1].content = ""
    /\ item.start_time.kind # "text" /\ item.end_time.kind # "text"

RECURSIVE Flatten(_)
Flatten(texts) ==
    IF texts = <<>> THEN <<>> ELSE Head(texts) \o Flatten(Tail(texts))

\* C9: on a transcript of well-formed and malformed items, the conversion to
\* WebVTT is not aborted, and the tokens of its subtitles are the contents
\* of the well-formed items, in order: no malformed item yields a token.
C9_MalformedItemSkipped ==
    (/\ convert_result # "not called"
     /\ transcript_data.top = "dict"
     /\ \A k \in 1..Len(transcript_data.items) :
            \/ WellFormedItem(transcript_data.items[k])
            \/ MalformedItem(transcript_data.items[k]))
        => /\ convert_result = "returned"
           /\ Flatten([k \in 1..Len(subtitles) |-> subtitles[k].text])
                  = LET good == SelectSeq(transcript_data.items, WellFormedItem)
                    IN  [k \in 1..Len(good) |-> good[k].alternatives[1].content]

\* C10: a step of the segmenter starts a new cue exactly when the token's
\* speaker differs from the current cue's speaker, or it starts more than
\* PAUSE_THRESHOLD after the current cue's end, or the current cue holds
\* MAX_SEGMENT_LENGTH words, or the cue would last more than
\* MAX_SEGMENT_DURATION with it; otherwise the token is appended to the
\* current cue, whose end becomes the token's end.
C10_SegmenterRule ==
    [][(pc = "segment" /\ i <= Len(words)) =>
          LET word == words[i]
              split ==
                  \/ word.speaker # current_segment.speaker
                  \/ word.start_time - current_segment.end_time > PAUSE_THRESHOLD
                  \/ Len(current_segment.text) >= MAX_SEGMENT_LENGTH
                  \/ word.end_time - current_segment.start_time
                         > MAX_SEGMENT_DURATION
          IN  IF split
              THEN /\ segments' = Append(segments, current_segment)
                   /\ current_segment'.text = <<word.content>>
                   /\ current_segment'.start_time = word.start_time
                   /\ current_segment'.end_time = word.end_time
                   /\ current_segment'.speaker = word.speaker
              ELSE /\ segments' = segments
                   /\ current_segment'.text =
                          Append(current_segment.text, word.content)
                   /\ current_segment'.start_time = current_segment.start_time
                   /\ current_segment'.end_time = word.end_time
                   /\ current_segment'.speaker = current_segment.speaker]_vars

\* C10 witness: the segmenter has closed a cue of MAX_SEGMENT_LENGTH words
\* before a token of the same speaker that follows without a pause, and has
\* appended tokens to a cue.
C10_Witness ==
    /\ pc = "merge"
    /\ \E k \in 1..(Len(segments) - 1) :
           /\ Len(segments[k].text) = MAX_SEGMENT_LENGTH
           /\ segments[k + 1].speaker = segments[k].speaker
           /\ segments[k + 1].start_time - segments[k].end_time <= PAUSE_THRESHOLD
           /\ segments[k + 1].end_time - segments[k].start_time
                  <= MAX_SEGMENT_DURATION

\* in a cue sequence, a cue is marked only if it is not the first and its
\* speaker differs from the speaker of the cue before it
MarkedOnlyAfterTransition(cues) ==
    \A k \in 1..Len(cues) :
        cues[k].speaker_changed =>
            (k > 1 /\ cues[k].speaker # cues[k - 1].speaker)

\* C11: in the cue sequences of the segmenter, of the merger and of the
\* minimum-duration stage, speaker_changed holds for a cue only if it is not
\* the first cue and its speaker differs from that of the cue before it; the
\* first Dialogue line of the file is never written with the marker "-- ".
C11_MarkedOnlyAfterTransition ==
    /\ MarkedOnlyAfterTransition(segments)
    /\ MarkedOnlyAfterTransition(merged_segments)
    /\ MarkedOnlyAfterTransition(timed_segments)
    /\ (output_ass.exists /\ output_ass.events # <<>>) =>
           /\ output_ass.events[1].text = JoinWords(timed_segments[1].text)
           /\ SubSeq(output_ass.events[1].text, 1, 2) # "--"

\* C11 witness: a file is written whose second cue is marked, after a first
\* cue of another speaker, and carries the marker.
C11_Witness ==
    /\ output_ass.exists
    /\ Len(timed_segments) >= 2
    /\ timed_segments[2].speaker_changed
    /\ timed_segments[2].speaker # timed_segments[1].speaker
    /\ SubSeq(output_ass.events[2].text, 1, 3) = "-- "

\* the call to parse_aws_transcript_to_ass ended in an error: it returned False
\* or an exception left it
CallFailed == pc = ExceptClause \/ (pc = "returned" /\ ~success)

\* C12: a run that ends in an error has created no output file and left none
\* partially written; here, for the ASS file of parse_aws_transcript_to_ass
C12_NoFileAfterError == CallFailed => ~output_ass.exists

\* C13: for one task id at most one run is executing at any time
C13_OneRunPerTask == Cardinality({r \in RunIds : Executing(r)}) <= 1

\* the decision table of the position resolver on the regions whose time
\* lies within the cue, classified by the centre of the box into the upper
\* and the lower third of the frame
TablePosition(sub, regions) ==
    LET within == {k \in 1..Len(regions) :
                      sub.start <= regions[k][1] /\ regions[k][1] <= SubEnd(sub)}
        centre(k) == regions[k][2][1] + (regions[k][2][2] \div 2)
        upper == \E k \in within : centre(k) * 3 < FrameHeight
        lower == \E k \in within : centre(k) * 3 > FrameHeight * 2
    IN  IF lower /\ ~upper THEN "top_center"
        ELSE IF lower /\ upper THEN "raised_bottom"
        ELSE "bottom_center"

\* C14: the position of each cue follows the decision table: regions only in
\* the lower third give the top, regions only in the upper third the bottom,
\* regions in both the raised bottom, and no regions the bottom; here, for the
\* positions optimize_subtitle_position gives when its detection has run
C14_PositionFollowsTable ==
    (rekognition /\ process_status # "uploaded") =>
        \A k \in 1..Len(positioned) :
            positioned[k].position = TablePosition(positioned[k], text_regions)

\* the texts the detection compares at cue k
TextBefore(k) == Strip(result[k - 1].text)

TextAt(k) == Strip(result[k].text)

\* the flag as the claim states it
ClaimedChange(k) ==
    \/ /\ sentence_end(TextBefore(k))
       /\ \/ startswith(TextAt(k), "-")
          \/ startswith(TextAt(k), "\"") /\ ~endswith(TextBefore(k), "\"")
          \/ TextAt(k) # "" /\ CharAt(TextAt(k), 1) \in UpperCase
    \/ endswith(TextBefore(k), "?") /\ ~endswith(TextAt(k), "?")

\* the flag with the dash, the quotation mark and the name taken on their own
AmendedChange(k) ==
    \/ startswith(TextAt(k), "-")
    \/ startswith(TextAt(k), "\"") /\ ~endswith(TextBefore(k), "\"")
    \/ starts_with_name(TextAt(k))
    \/ /\ sentence_end(TextBefore(k))
       /\ TextAt(k) # "" /\ CharAt(TextAt(k), 1) \in UpperCase
    \/ endswith(TextBefore(k), "?") /\ ~endswith(TextAt(k), "?")

\* the detection that reads the texts has run
GenericDetection(changes) ==
    /\ changes # <<>>
    /\ changes = speaker_changes \/ ~(sample_video /\ Len(result) >= SampleCues)

KnownFormats == {"vtt", "srt", "ass", "vlc_srt", "both"}

\* C16: a request to serialize in an unsupported or unknown format ends in an
\* error and writes no file in some other format
C16_UnknownFormatIsError ==
    (process_status = "completed" /\ output_format \notin KnownFormats) =>
        files[output_format] = NoOutput

\* C17: the serialized text of every cue whose speaker changed has the marker
\* "--" as the first two characters of its first line; here, for the cues of
\* the WebVTT file, where a cue after the first is one of a new speaker when
\* its speaker differs from the speaker of the cue before
C17_MarkerOpensText ==
    output_vtt.exists =>
        \A k \in 2..Len(output_vtt.cues) :
            subtitles[k].speaker # subtitles[k - 1].speaker =>
                SubSeq(output_vtt.cues[k].text, 1, 2) = "--"

\* the labels of the speaker segments whose item list names the token, which
\* a segment item names by its start_time
LabelsNaming(word) ==
    {transcript_data.speaker_segments[n].speaker_label :
        n \in {m \in 1..Len(transcript_data.speaker_segments) :
                  \E j \in 1..Len(transcript_data.speaker_segments[m].items) :
                      LET id == transcript_data.speaker_segments[m].items[j].start_time
                      IN  id.kind = "num" /\ id.val = word.start_time}}

\* C18: the speaker of each token is the label of the speaker segment whose
\* item list names the token, and spk_0 for a token no segment names
C18_SpeakerFromSegment ==
    \A k \in 1..Len(words) :
        IF LabelsNaming(words[k]) = {}
        THEN words[k].speaker = "spk_0"
        ELSE LabelsNaming(words[k]) = {words[k].speaker}

C18_Witness ==
    /\ pc = "position"
    /\ \E k \in 1..Len(words) :
           /\ LabelsNaming(words[k]) = {"spk_1"}
           /\ words[k].speaker = "spk_1"
    /\ \E k \in 2..Len(words) :
           /\ LabelsNaming(words[k]) = {}
           /\ words[k].speaker = "spk_0"
           /\ words[k - 1].speaker = "spk_1"

\* the files of the three formats that have been written
WrittenFormats == {f \in {"srt", "vtt", "ass"} : files[f] # NoOutput}

\* C19: the two-line transform is the same in SRT, WebVTT and ASS: the text of
\* a cue has at most two lines in each, and the same cue has the same number
\* of lines and, where no label is written into it, the same number of words
\* on each line in all three
C19_SameLineBreaks ==
    \A f \in WrittenFormats : \A g \in WrittenFormats :
        \A k \in 1..Len(subs) :
            LET tf == files[f].cues[k].text
                tg == files[g].cues[k].text
            IN  /\ Len(tf) <= 2
                /\ Len(tf) = Len(tg)
                /\ subs[k].label = "" =>
                       \A j \in 1..Len(tf) : Len(tf[j]) = Len(tg[j])

\* the value of a decimal digit
DigitValue(c) == CHOOSE d \in 0..9 : Digits[d + 1] = c

IsDigit(c) == \E d \in 0..9 : Digits[d + 1] = c

\* s has the form HH:MM:SS.mmm with minutes and seconds in 00-59
TimestampForm(s) ==
    /\ Len(s) = 12
    /\ \A k \in {1, 2, 4, 5, 7, 8, 10, 11, 12} : IsDigit(CharAt(s, k))
    /\ CharAt(s, 3) = ":" /\ CharAt(s, 6) = ":" /\ CharAt(s, 9) = "."
    /\ DigitValue(CharAt(s, 4)) <= 5
    /\ DigitValue(CharAt(s, 7)) <= 5

\* the milliseconds a timestamp of that form stands for
TimestampValue(s) ==
    LET Two(k) == 10 * DigitValue(CharAt(s, k)) + DigitValue(CharAt(s, k + 1))
    IN  ((Two(1) * 60 + Two(4)) * 60 + Two(7)) * 1000
            + 100 * DigitValue(CharAt(s, 10)) + Two(11)

Encodes(s, ms) == TimestampForm(s) /\ TimestampValue(s) = ms

\* C20: every timestamp written to the WebVTT file of a Whisper
\* transcription encodes the time of its segment as HH:MM:SS.mmm, with
\* two-digit hours, minutes and seconds in 00-59 and three millisecond digits
C20_TimestampsEncodeTimes ==
    whisper_vtt.exists =>
        \A k \in 1..Len(whisper_vtt.cues) :
            /\ Encodes(whisper_vtt.cues[k].start, result[k].start)
            /\ Encodes(whisper_vtt.cues[k].end, result[k].end)

\* s has the form H:MM:SS.cc: an hour without padding, two digits of
\* minutes, of seconds and of centiseconds
AssTimeForm(s) ==
    LET n == Len(s)
    IN  /\ n >= 10
        /\ \A k \in (1..(n - 9)) \cup {n - 7, n - 6, n - 4, n - 3, n - 1, n} :
               IsDigit(CharAt(s, k))
        /\ n > 10 => CharAt(s, 1) # "0"
        /\ CharAt(s, n - 8) = ":" /\ CharAt(s, n - 5) = ":"
        /\ CharAt(s, n - 2) = "."

HiWritten ==
    /\ transcript_data = TranscriptOf(HiScript)
    /\ output_ass.exists
    /\ text_regions_by_time = EmptyMap

\* C21: the one cue Hi from 1.0 s to 2.0 s, with no speaker change and no
\* text regions, is written as the line
\* Dialogue: 0,0:00:01.00,0:00:02.00,Default,,0,0,0,,Hi and every timestamp
\* of a written event has the form H:MM:SS.cc
C21_HiDialogueLine ==
    /\ HiWritten =>
           [k \in 1..Len(output_ass.events) |-> DialogueLine(output_ass.events[k])]
               = <<"Dialogue: 0,0:00:01.00,0:00:02.00,Default,,0,0,0,,Hi">>
    /\ \A k \in 1..Len(output_ass.events) :
           /\ AssTimeForm(output_ass.events[k].start)
           /\ AssTimeForm(output_ass.events[k].end)

C21_Witness == HiWritten /\ success /\ pc = "returned"

HelloDone == transcript_data = TranscriptOf(HelloScript) /\ pc = "position"

Cue(content, start, end, spk, changed) ==
    [start_time |-> start, end_time |-> end, speaker |-> spk, text |-> content,
     speaker_changed |-> changed]

\* the two cues as the claim gives them
ClaimedCues ==
    <<Cue(<<"Hello", "there,">>, 0, 900, "spk_0", FALSE),
      Cue(<<"Bob">>, 2000, 3000, "spk_1", TRUE)>>

\* C22 as claimed: the tokens Hello, there, ',', Bob yield the cues
\* 'Hello there,' 0.0-0.9 of spk_0, not marked, and 'Bob' 2.0-3.0 of spk_1,
\* marked (read of the cues after the merger or of those after the minimum
\* duration)
C22_ScenarioAsClaimed ==
    HelloDone =>
        (merged_segments = ClaimedCues \/ timed_segments = ClaimedCues)

\* C22 amended: the merger yields 'Hello there,' 0.0-0.9 and 'Bob' 2.0-2.4,
\* and the minimum duration extends both: 'Hello there,' to 0.0-1.0 and
\* 'Bob' to 2.0-3.0
C22_ScenarioAsAmended ==
    HelloDone =>
        /\ merged_segments =
               <<Cue(<<"Hello", "there,">>, 0, 900, "spk_0", FALSE),
                 Cue(<<"Bob">>, 2000, 2400, "spk_1", TRUE)>>
        /\ timed_segments =
               <<Cue(<<"Hello", "there,">>, 0, 1000, "spk_0", FALSE),
                 Cue(<<"Bob">>, 2000, 3000, "spk_1", TRUE)>>

C22_Witness == HelloDone /\ Len(timed_segments) = 2

\* C24: merging does not undo a split made for the maximum duration: every
\* cue of the merged sequence that holds more than one token lasts at most
\* MAX_SEGMENT_DURATION (before the minimum duration is ensured)
C24_MergedWithinMaxDuration ==
    \A k \in 1..Len(merged_segments) :
        Len(merged_segments[k].text) > 1 =>
            merged_segments[k].end_time - merged_segments[k].start_time
                <= MAX_SEGMENT_DURATION

\* the words of a cue sequence, cue after cue
CueWords(cues) == Flatten([k \in 1..Len(cues) |-> cues[k].text])

TokenContents == [k \in 1..Len(words) |-> words[k].content]

\* C30: the words of the cues, taken in order, are the contents of the
\* normalized tokens in their order, after the segmenter, after the merger
\* and in the final cues: none is dropped, doubled or moved
C30_WordsConserved ==
    /\ pc \in {"merge", "min_duration", "position"} =>
           CueWords(segments) = TokenContents
    /\ pc \in {"min_duration", "position"} =>
           CueWords(merged_segments) = TokenContents
    /\ pc = "position" => CueWords(timed_segments) = TokenContents

\* C30 witness: final cues of a run in which the segmenter split the tokens
\* and the merger joined two of the cues
C30_Witness ==
    /\ pc = "position"
    /\ Len(timed_segments) > 1
    /\ Len(timed_segments) < Len(segments)

\* the line began with a single dash
BeganWithDash(line) == HasPrefix(line, "-") /\ ~HasPrefix(line, "--")

\* C23: after _basic_dialogue_detection a cue whose text does not start
\* with a dash is unchanged, and in every cue each line that began with a
\* single dash begins with the marker '--', in cues of one line and in every
\* line of cues of several lines
C23_DashesDoubled ==
    \A k \in 1..Len(detected_subs) :
        LET before == SplitLines(dialogue_subs[k])
            after  == SplitLines(detected_subs[k])
        IN  /\ ~HasPrefix(dialogue_subs[k], "-") =>
                   detected_subs[k] = dialogue_subs[k]
            /\ Len(after) = Len(before)
            /\ \A j \in 1..Len(before) :
                   BeganWithDash(before[j]) => HasPrefix(after[j], "--")

\* C25: the status check of wait_for_transcription_job that finds the job
\* FAILED ends the wait with None at once, on either shape of result
C25_FailedEndsWait ==
    [][(/\ loop \in WaitLoops
        /\ poll_result = "polling"
        /\ job_status = "FAILED"
        /\ attempts' = attempts + 1) => poll_result' = "None"]_vars

\* C26: every loop that polls a transcription job comes to an end, also if
\* the job never becomes COMPLETED or FAILED
C26_PollingEnds == <>(poll_result # "polling")

\* the updates of the run that record a progress
ProgressUpdates == {k \in 1..Len(status_log) : status_log[k].progress # NoProgress}

\* C29: within one run of transcribe_video_to_subtitles the progress recorded
\* in successive status updates never decreases, on every path through AWS,
\* Whisper and ffmpeg, fallbacks included
C29_ProgressNeverDecreases ==
    func = "transcribe_video_to_subtitles" =>
        \A j, k \in ProgressUpdates :
            j < k => status_log[j].progress <= status_log[k].progress

Reported(status) == \E k \in 1..Len(status_log) : status_log[k].status = status

\* C27: a run whose cancellation event was set before its output was saved
\* ends with the status cancelled, has written no output file, and has never
\* reported the task as completed
C27_CancelledBeforeSaveEndsCancelled ==
    (run_pc = "returned" /\ set_before_save) =>
        /\ status_log[Len(status_log)].status = "cancelled"
        /\ ~output_saved
        /\ ~Reported("completed")

\* C28: a run of process_subtitle or transcribe_video_to_subtitles that has
\* returned made a terminal status its last status update and no earlier one,
\* and the task has no entry in active_tasks
C28_ReturnedRunIsTerminal ==
    run_pc = "returned" =>
        /\ status_log # <<>>
        /\ status_log[Len(status_log)].status \in TerminalStatuses
        /\ \A k \in 1..(Len(status_log) - 1) :
               status_log[k].status \notin TerminalStatuses
        /\ ~in_active_tasks

\* a run that fell back from AWS to Whisper to ffmpeg has returned completed
C28_Witness ==
    /\ run_pc = "returned"
    /\ func = "transcribe_video_to_subtitles"
    /\ Reported("completed")
    /\ \E k \in 1..Len(status_log) : status_log[k].progress = 30
    /\ \E k \in 1..Len(status_log) : status_log[k].progress = 90

====
